---- MODULE Spec2Model ----
(***************************************************************************)
(* A model of the graphics core of the `heart` 2D framework:               *)
(*   - the quadtree atlas packer (graphics/sprite/sheet_assembly.rs),      *)
(*   - the sheet assembler thread and the sprite registry                  *)
(*     (graphics/sprite.rs, graphics/sprite/sheet_assembly.rs),            *)
(*   - the immediate-mode recorder, the render list and the renderer       *)
(*     (graphics.rs, graphics/context.rs, graphics/renderer.rs,            *)
(*      graphics/rectangle.rs, graphics/transform.rs).                     *)
(*                                                                         *)
(* f32 coordinates are modelled by integers (every input of the model is   *)
(* a small integer, on which f32 arithmetic is exact); a u8 of pixel data  *)
(* is modelled by an integer tag that names the sprite and the byte.       *)
(***************************************************************************)
EXTENDS Integers, Sequences, FiniteSets, TLC

VARIABLES
    \* ---- SpriteRenderer (graphics/sprite.rs:130-139) ----
    sprites,        \* Vec<Sprite>: the registry, indexed by handle + 1
    spritesheet,    \* Arc<Texture>: the sheet the foreground binds
    inbox,          \* assembly_sender -> SheetAssembler.receiver (unbounded)
    token,          \* the park token of the assembler thread
    \* ---- SheetAssembler::work locals (sheet_assembly.rs:53-100) ----
    wpc,            \* position of the worker in its loop
    layout,         \* the packer root
    sheet,          \* CPU sheet buffer
    sheet_size,     \* edge of the CPU sheet
    allocations,    \* Vec<(Handle, TextureRegion)> of the running pass
    datas,          \* Vec<Box<[u8]>> of the running pass
    outbox,         \* the feedback offered on the rendezvous channel
    passes,         \* number of textures the worker has created (Arc identity)
    \* ---- Context (graphics/context.rs:11-15) ----
    render_list,    \* RenderList {clear_color, commands}
    draw_state,     \* DrawState {color, transform}
    vertex_offset,  \* Buffers.vertex_offset
    index_offset,   \* Buffers.index_offset
    \* ---- event loop position and observation ----
    phase,          \* "idle" | "poll": RedrawRequested, inside poll after the
                    \* unpark | "draw": inside RedrawRequested after reset
    trace,          \* the public drawing calls made since the last frame reset
    drawcalls,      \* draw_indexed calls issued by the last render
    returned,       \* packer history: every alloc request with its result
                    \* (and, in the worker, the number of the pass making it)
    images,         \* every image given to create_sprite, in call order, with
                    \* the handle returned for it
    limits,         \* the bounds of the run (set by Init, never changed)
    made,           \* the Image::from_data calls made, with their outcomes
    unparks,        \* the unparks issued by poll (counted up to limits.unparks)
    stale,          \* the reset of the frame being drawn found the context
                    \* used: commands, offsets, colors and transform
    skipped,        \* the frame that last ended found no surface texture
    \* ---- App and the callbacks (internal/app.rs, internal/executor.rs) ----
    app             \* [stage, internals, context, exiting, panicked, calls]

vars == <<sprites, spritesheet, inbox, token, wpc, layout, sheet, sheet_size,
          allocations, datas, outbox, passes, render_list, draw_state,
          vertex_offset, index_offset, phase, trace, drawcalls,
          returned, images, limits, made, unparks, stale, skipped, app>>

registryVars == <<sprites, spritesheet>>
workerVars == <<wpc, layout, sheet, sheet_size, allocations, datas, outbox, passes>>
recorderVars == <<render_list, draw_state, trace>>
bufferVars == <<vertex_offset, index_offset, drawcalls>>

----------------------------------------------------------------------------
(* Bounds *)

\* allocations made by the packer specification
MaxAllocs == 5
\* sprites created in the assembler specification
MaxSprites == 2
\* public API calls per frame in the recorder specification
MaxCalls == 3
\* callbacks called in the event-loop specification
MaxEvents == 3
\* Image::from_data calls in the image specification
MaxImages == 1
\* unparks counted in the unpark specification
MaxUnparks == 3
\* bits of a u32 in the image specification; usize has twice as many, as on
\* a 64-bit target
U32Bits == 2

\* sprite widths and heights in the assembler specification
SpriteDims == {1, 2}
\* sprite widths and heights in the recorder specification
UnitDims == {1}
\* handles in the recorder specification
DrawHandles == {0, 1}
\* (width, height) requested of the packer alone (alloc accepts 0)
PackerShapes == {<<1, 1>>, <<2, 2>>, <<4, 4>>, <<1, 2>>, <<3, 1>>, <<0, 0>>}
\* colors given to set_color
Colors == {<<1, 0, 0, 1>>}
\* (x, y, width, height) given to rectangle
RectGeoms == {<<0, 0, 1, 1>>, <<1, 0, 2, 1>>}
\* (x, y) given to drawable
SpritePositions == {<<0, 0>>}
\* (x, y) given to translate
Translations == {<<1, 0>>}
\* (x, y) given to translate and to scale in the transform specification
TransformOffsets == {<<1, 0>>, <<-1, 2>>}
TransformFactors == {<<2, 3>>, <<-1, 1>>}
\* coordinates of the points and the parameters the transform algebra is
\* evaluated on (f32 is exact on them)
Coords == -1..2

----------------------------------------------------------------------------
(* Atlas packer: enum Node, sheet_assembly.rs:130-361 *)

Leaf(size) == [kind |-> "Leaf", size |-> size]

EmptyNode(size, x, y) == [kind |-> "Empty", size |-> size, x |-> x, y |-> y]

Subdivision(size, tl, tr, bl, br) ==
    [kind |-> "Subdivided", size |-> size,
     top_left |-> tl, top_right |-> tr, bottom_left |-> bl, bottom_right |-> br]

\* Node::empty
NodeEmpty == EmptyNode(0, 0, 0)

\* Node::subdivided with the top-right quadrant placed at the origin
NodeSubdividedAtOrigin(outer_size) ==
    Subdivision(outer_size,
        EmptyNode(outer_size \div 2, 0, 0),
        EmptyNode(outer_size \div 2, 0, 0),
        EmptyNode(outer_size \div 2, 0, outer_size \div 2),
        EmptyNode(outer_size \div 2, outer_size \div 2, outer_size \div 2))

\* Node::subdivided with the origins of the two left children exchanged
NodeSubdividedRowsSwapped(outer_size) ==
    Subdivision(outer_size,
        EmptyNode(outer_size \div 2, 0, outer_size \div 2),
        EmptyNode(outer_size \div 2, outer_size \div 2, 0),
        EmptyNode(outer_size \div 2, 0, 0),
        EmptyNode(outer_size \div 2, outer_size \div 2, outer_size \div 2))

\* Node::subdivided
NodeSubdivided(outer_size) ==
    Subdivision(outer_size,
        EmptyNode(outer_size \div 2, 0, 0),
        EmptyNode(outer_size \div 2, outer_size \div 2, 0),
        EmptyNode(outer_size \div 2, 0, outer_size \div 2),
        EmptyNode(outer_size \div 2, outer_size \div 2, outer_size \div 2))

\* Node::size
NodeSize(node) == node.size

\* the size taken as it is, without rounding up
SizeUnrounded(n) == IF n >= 1 THEN n ELSE 1

RECURSIVE NextPow2From(_, _)
NextPow2From(p, n) == IF p >= n THEN p ELSE NextPow2From(2 * p, n)

\* u32::next_power_of_two (0 and 1 give 1)
next_power_of_two(n) == NextPow2From(1, n)

Max(a, b) == IF a >= b THEN a ELSE b

\* The result of a packer operation: the node after it, the origin it
\* returns, the AllocError (or "Ok"), and whether a panic!()/unreachable!()
\* was executed.
PackRes(node, x, y, res, panicked) ==
    [node |-> node, x |-> x, y |-> y, res |-> res, panicked |-> panicked]

\* Node::empty_alloc
RECURSIVE empty_alloc(_, _)
empty_alloc(node, sprite_size) ==
    IF node.kind # "Empty" THEN PackRes(node, 0, 0, "Ok", TRUE)
    ELSE IF sprite_size < node.size THEN
        LET inner == empty_alloc(EmptyNode(node.size \div 2, node.x, node.y), sprite_size)
        IN PackRes(
            Subdivision(node.size,
                inner.node,
                EmptyNode(node.size \div 2, node.x + node.size \div 2, node.y),
                EmptyNode(node.size \div 2, node.x, node.y + node.size \div 2),
                EmptyNode(node.size \div 2, node.x + node.size \div 2,
                                            node.y + node.size \div 2)),
            inner.x, inner.y, "Ok", inner.panicked)
    ELSE IF sprite_size = node.size THEN
        PackRes(Leaf(node.size), node.x, node.y, "Ok", FALSE)
    ELSE PackRes(node, 0, 0, "Ok", TRUE)

\* Node::realloc with the top-left child's y taken from the given field
\* of the Empty node ("x" in the source, line 328)
RECURSIVE reallocWith(_, _, _)
reallocWith(node, old, yField) ==
    IF node.kind # "Empty" THEN PackRes(node, 0, 0, "Ok", TRUE)
    ELSE IF NodeSize(old) < node.size THEN
        LET inner == reallocWith(
                EmptyNode(node.size \div 2, node.x,
                          IF yField = "x" THEN node.x ELSE node.y),
                old, yField)
        IN PackRes(
            Subdivision(node.size,
                inner.node,
                EmptyNode(node.size \div 2, node.x + node.size \div 2, node.y),
                EmptyNode(node.size \div 2, node.x, node.y + node.size \div 2),
                EmptyNode(node.size \div 2, node.x + node.size \div 2,
                                            node.y + node.size \div 2)),
            0, 0, "Ok", inner.panicked)
    ELSE IF NodeSize(old) = node.size THEN PackRes(old, 0, 0, "Ok", FALSE)
    ELSE PackRes(node, 0, 0, "Ok", TRUE)

\* Node::realloc leaving the Empty node as it is, the old tree dropped
reallocDropping(node, old) == PackRes(node, 0, 0, "Ok", FALSE)

\* Node::realloc
realloc(node, old) == reallocWith(node, old, "x")

ChildNames == <<"top_left", "top_right", "bottom_left", "bottom_right">>

\* Node::try_alloc; the loop over the children is TryChildren
RECURSIVE try_alloc(_, _), TryChildren(_, _, _)
try_alloc(node, sprite_size) ==
    CASE node.kind = "Leaf" ->
            IF sprite_size <= node.size
            THEN PackRes(node, 0, 0, "Occupied", FALSE)
            ELSE PackRes(node, 0, 0, "Undersized", FALSE)
      [] node.kind = "Subdivided" ->
            IF sprite_size < node.size THEN TryChildren(node, sprite_size, 1)
            ELSE IF sprite_size = node.size
            THEN PackRes(node, 0, 0, "Occupied", FALSE)
            ELSE PackRes(node, 0, 0, "Undersized", FALSE)
      [] node.kind = "Empty" ->
            IF sprite_size <= node.size
            THEN empty_alloc(node, sprite_size)
            ELSE PackRes(node, 0, 0, "EmptyUndersized", FALSE)

TryChildren(node, sprite_size, i) ==
    IF i > 4 THEN PackRes(node, 0, 0, "Occupied", FALSE)
    ELSE LET r == try_alloc(node[ChildNames[i]], sprite_size)
         IN CASE r.panicked -> PackRes(node, 0, 0, "Ok", TRUE)
              [] ~r.panicked /\ r.res = "Ok" ->
                    PackRes([node EXCEPT ![ChildNames[i]] = r.node],
                            r.x, r.y, "Ok", FALSE)
              [] ~r.panicked /\ r.res = "Occupied" ->
                    TryChildren(node, sprite_size, i + 1)
              [] OTHER -> PackRes(node, 0, 0, "Ok", TRUE)

TextureRegion(left, top, right, bottom) ==
    [left |-> left, top |-> top, right |-> right, bottom |-> bottom]

\* the region spanning the whole normalized square
AllocRegionSquare(x, y, width, height) ==
    TextureRegion(x, y, x + next_power_of_two(Max(width, height)),
                        y + next_power_of_two(Max(width, height)))

\* the TextureRegion that alloc returns for the origin (x, y), lines 229-234
AllocRegion(x, y, width, height) == TextureRegion(x, y, x + width, y + height)

\* Node::alloc: [node, region, panicked]
alloc(node, width, height) ==
    LET normalized_size == next_power_of_two(Max(width, height))
        t == try_alloc(node, normalized_size)
        r == CASE t.panicked -> t
               [] ~t.panicked /\ t.res = "Ok" -> t
               [] ~t.panicked /\ t.res = "Occupied" ->
                    LET new == NodeSubdivided(NodeSize(node) * 2)
                        a == empty_alloc(new.top_right, normalized_size)
                    IN PackRes([new EXCEPT !.top_left = node, !.top_right = a.node],
                               a.x, a.y, "Ok", a.panicked)
               [] ~t.panicked /\ t.res = "Undersized" ->
                    LET new == NodeSubdivided(normalized_size * 2)
                        a == realloc(new.top_left, node)
                    IN PackRes([new EXCEPT !.top_left = a.node,
                                           !.top_right = Leaf(normalized_size)],
                               normalized_size, 0, "Ok", a.panicked)
               [] OTHER -> PackRes(Leaf(normalized_size), 0, 0, "Ok", FALSE)
    IN [node |-> r.node,
        region |-> AllocRegion(r.x, r.y, width, height),
        panicked |-> r.panicked]

\* Node::alloc of a reference packer whose realloc gives the top-left child
\* the y of its parent (y: *y in place of y: *x at line 328)
allocReference(node, width, height) ==
    LET normalized_size == next_power_of_two(Max(width, height))
        t == try_alloc(node, normalized_size)
    IN IF ~t.panicked /\ t.res = "Undersized"
       THEN LET new == NodeSubdivided(normalized_size * 2)
                a == reallocWith(new.top_left, node, "y")
            IN [node |-> [new EXCEPT !.top_left = a.node,
                                     !.top_right = Leaf(normalized_size)],
                region |-> AllocRegion(normalized_size, 0, width, height),
                panicked |-> a.panicked]
       ELSE alloc(node, width, height)

RECURSIVE ReallocNodes(_, _)
\* the Empty nodes that realloc is invoked on, from the given one down
ReallocNodes(node, old) ==
    {node} \cup
        (IF node.kind = "Empty" /\ NodeSize(old) < node.size
         THEN ReallocNodes(EmptyNode(node.size \div 2, node.x, node.x), old)
         ELSE {})

----------------------------------------------------------------------------
(* Textures and sprite data *)

\* bytes of one RGBA8 pixel
PixelBytes == 4

\* The k-th byte (from 0) of the image behind handle h: a tag that is never
\* 0, the value of a fresh sheet byte, and differs for every (h, k).
PixelTag(h, k) == (h + 1) * 100 + k

\* Image {data, width, height} as create_sprite receives it for the sprite
\* that will get handle h (image.rs: data.len() == width * height * 4)
Image(h, width, height) ==
    [data |-> [k \in 1..(width * height * PixelBytes) |-> PixelTag(h, k - 1)],
     width |-> width, height |-> height]

\* Texture::from_data; id stands for the identity of the Arc allocation
TextureFromData(id, data, width, height) ==
    [id |-> id, width |-> width, height |-> height, data |-> data]

\* Texture::empty
TextureEmpty(id, width, height) ==
    [id |-> id, width |-> width, height |-> height,
     data |-> [k \in 1..(width * height * PixelBytes) |-> 0]]

\* enum Sprite
SpriteTexture(texture) == [kind |-> "Texture", texture |-> texture]

SpriteSheet(region) == [kind |-> "Sheet", region |-> region]

\* the upload tagged with the registry length after the push
SpriteDataNextHandle(handle, data, width, height) ==
    [handle |-> handle + 1, data |-> data, width |-> width, height |-> height]

\* struct SpriteData
SpriteData(handle, data, width, height) ==
    [handle |-> handle, data |-> data, width |-> width, height |-> height]

\* no feedback is offered on the rendezvous channel
NoFeedback == [offered |-> FALSE]

\* struct SheetAssemblyFeedback, offered by a sender blocked in send
Feedback(updated_sprites, new_sheet) ==
    [offered |-> TRUE, updated_sprites |-> updated_sprites, new_sheet |-> new_sheet]

----------------------------------------------------------------------------
(* copy, sheet_assembly.rs:103-115 *)

\* the rows of src that chunks_exact(src_width * 4) yields
CopyRows(src, src_width) == Len(src) \div (src_width * PixelBytes)

\* the row offset with dest_x counted in bytes instead of pixels
CopyOffsetUnscaledX(dest_size, dest_x, dest_y, src_y) ==
    (dest_y + src_y) * dest_size * PixelBytes + dest_x

\* offset in dest of the first byte of row src_y
CopyOffset(dest_size, dest_x, dest_y, src_y) ==
    (dest_y + src_y) * dest_size * PixelBytes + dest_x * PixelBytes

\* the slices dest[from..to] that copy writes, one per row, as <<from, to>>
CopySlices(dest_size, dest_x, dest_y, src, src_width) ==
    IF src_width = 0 THEN {}
    ELSE {<<CopyOffset(dest_size, dest_x, dest_y, r),
            CopyOffset(dest_size, dest_x, dest_y, r) + src_width * PixelBytes>> :
                r \in 0..(CopyRows(src, src_width) - 1)}

\* copy: [buf, panicked]; panicked when a row's slice leaves dest
copy(dest, dest_size, dest_x, dest_y, src, src_width) ==
    IF src_width = 0 THEN [buf |-> dest, panicked |-> FALSE]
    ELSE
        LET rowlen == src_width * PixelBytes
            rows == 0..(CopyRows(src, src_width) - 1)
            off(r) == CopyOffset(dest_size, dest_x, dest_y, r)
            covering(k) == {r \in rows : off(r) <= k - 1 /\ k - 1 < off(r) + rowlen}
            last(S) == CHOOSE r \in S : \A q \in S : q <= r
        IN [buf |-> [k \in 1..Len(dest) |->
                        IF covering(k) = {} THEN dest[k]
                        ELSE LET r == last(covering(k))
                             IN src[r * rowlen + (k - 1 - off(r)) + 1]],
            panicked |-> \E r \in rows : off(r) + rowlen > Len(dest)]

----------------------------------------------------------------------------
(* App and the global context, internal/app.rs:17-50, graphics/context.rs:44-56 *)

\* stage: "main" (before HeartBuilder::run), "running" (inside run_app) or
\* "exited"; internals: App.internals is Some; context: CONTEXT is set;
\* exiting: event_loop.exit() was called; panicked: the foreground thread
\* panicked; calls: the callbacks called so far ("load", "update", "draw")
AppState(stage, internals, context, exiting, panicked, calls) ==
    [stage |-> stage, internals |-> internals, context |-> context,
     exiting |-> exiting, panicked |-> panicked, calls |-> calls,
     keys |-> {}, collected |-> 0, tick_duration |-> 1,
     device |-> [pc |-> "none", future |-> "pending", token |-> FALSE,
                 registered |-> FALSE, waking |-> FALSE]]

\* App::new, before the event loop runs: CONTEXT is an empty OnceLock
AppNew == AppState("main", FALSE, FALSE, FALSE, FALSE, <<>>)

\* the App once resumed has created the Internals and called load (the
\* state the recorder and assembler specifications begin in)
AppLoaded == AppState("running", TRUE, TRUE, FALSE, FALSE, <<>>)

\* the event loop is delivering events to the App
Running == app.stage = "running" /\ ~app.panicked

\* the specification lets one more callback be called
EventAllowed == limits.events = 0 \/ Len(app.calls) < limits.events

\* the callbacks called once cb is called too (kept up to limits.events)
Logged(cb) == IF Len(app.calls) < limits.events THEN Append(app.calls, cb)
              ELSE app.calls

\* context::get: CONTEXT.get().unwrap() finds the context
ContextGet ==
    /\ app.context /\ ~app.panicked /\ app.stage # "exited"
    /\ phase # "poll"

----------------------------------------------------------------------------
(* Sprite registry, graphics/sprite.rs:248-287 *)

\* the send completing only while the worker is receiving, as on a
\* rendezvous channel
InboxSendRendezvous == wpc \in {"drain", "dead"}

\* Sender::send on the unbounded inbox (sheet_assembly.rs:38) completes at
\* once, whatever the worker does
InboxSendReady == TRUE

\* a handle that names the newest entry again
NextHandleOfLast == IF sprites = <<>> THEN 0 ELSE Len(sprites) - 1

\* let handle = self.sprites.len()
NextHandle == Len(sprites)

\* SpriteRenderer::create_sprite: the send fails silently once the worker
\* thread (the receiver) is gone
CreateSprite(width, height) ==
    /\ Len(sprites) < limits.sprites
    /\ InboxSendReady
    /\ LET handle == NextHandle
           image == Image(Len(images), width, height)
       IN /\ sprites' = Append(sprites,
                SpriteTexture(TextureFromData(<<"sprite", handle>>,
                                              image.data, width, height)))
          /\ inbox' = IF wpc = "dead" THEN inbox
                      ELSE Append(inbox, SpriteData(handle, image.data, width, height))
          /\ images' = Append(images, [data |-> image.data, width |-> width,
                                       height |-> height, handle |-> handle])
    /\ UNCHANGED <<spritesheet, token, workerVars, recorderVars, bufferVars,
                   phase, returned, limits, made, unparks, stale, skipped, app>>

RECURSIVE ApplyFeedback(_, _)
\* the loop of poll over feedback.updated_sprites
ApplyFeedback(reg, updated) ==
    IF updated = <<>> THEN reg
    ELSE ApplyFeedback([reg EXCEPT ![Head(updated)[1] + 1] = SpriteSheet(Head(updated)[2])],
                       Tail(updated))

\* the registry after poll's try_recv
PollSprites == IF outbox.offered THEN ApplyFeedback(sprites, outbox.updated_sprites)
               ELSE sprites

\* a poll that applies the regions but keeps the sheet it had
PollSheetKept == spritesheet

\* the sheet after poll's try_recv
PollSheet == IF outbox.offered THEN outbox.new_sheet ELSE spritesheet

\* poll unparking on an empty inbox instead of a non-empty one
PollTokenWhenEmpty == IF inbox = <<>> THEN TRUE ELSE token

\* the park token after poll's unpark
PollToken == IF inbox # <<>> THEN TRUE ELSE token

----------------------------------------------------------------------------
(* Sheet assembler thread, sheet_assembly.rs:53-100 *)

\* a park that returns without consuming the token
ParkTokenKept == token

\* the token once thread::park has returned
ParkToken == FALSE

\* thread::park returns: the token is consumed, a pass begins
WorkerPark ==
    /\ wpc = "park"
    /\ token
    /\ token' = ParkToken
    /\ wpc' = "drain"
    /\ allocations' = <<>>
    /\ datas' = <<>>
    /\ UNCHANGED <<registryVars, inbox, layout, sheet, sheet_size, outbox, passes,
                   recorderVars, bufferVars, phase, returned, images, limits, made, unparks, stale, skipped, app>>

\* a receive that takes the newest upload of the inbox
InboxRecvNewest ==
    [sprite |-> inbox[Len(inbox)], rest |-> SubSeq(inbox, 1, Len(inbox) - 1)]

\* what try_iter's next() takes from the inbox, a FIFO channel, and leaves
InboxRecv == [sprite |-> Head(inbox), rest |-> Tail(inbox)]

\* one iteration of the try_iter loop
WorkerDrain ==
    /\ wpc = "drain"
    /\ inbox # <<>>
    /\ LET sprite == InboxRecv.sprite
           a == alloc(layout, sprite.width, sprite.height)
       IN /\ inbox' = InboxRecv.rest
          /\ layout' = a.node
          /\ wpc' = IF a.panicked THEN "dead" ELSE "drain"
          /\ allocations' = Append(allocations, <<sprite.handle, a.region>>)
          /\ datas' = Append(datas, sprite.data)
          /\ returned' = Append(returned,
                [width |-> sprite.width, height |-> sprite.height,
                 region |-> a.region, size |-> NodeSize(a.node),
                 before |-> NodeSize(layout), panicked |-> a.panicked,
                 pass |-> passes + 1])
    /\ UNCHANGED <<registryVars, token, sheet, sheet_size, outbox, passes,
                   recorderVars, bufferVars, phase, images, limits, made, unparks, stale, skipped, app>>

\* the grow step, lines 67-72: [buf, size, panicked]
Grow ==
    IF NodeSize(layout) > sheet_size THEN
        LET new_sheet == [k \in 1..(NodeSize(layout) * NodeSize(layout) * PixelBytes) |-> 0]
            c == copy(new_sheet, NodeSize(layout), 0, 0, sheet, sheet_size)
        IN [buf |-> c.buf, size |-> NodeSize(layout), panicked |-> c.panicked]
    ELSE [buf |-> sheet, size |-> sheet_size, panicked |-> FALSE]

RECURSIVE Blit(_, _, _)
\* the blit loop, lines 74-83, from pair i on: [buf, panicked]
Blit(buf, size, i) ==
    IF i > Len(allocations) \/ i > Len(datas) THEN [buf |-> buf, panicked |-> FALSE]
    ELSE LET allocation == allocations[i][2]
             c == copy(buf, size, allocation.left, allocation.top, datas[i],
                       allocation.right - allocation.left)
         IN IF c.panicked THEN c ELSE Blit(c.buf, size, i + 1)

\* a send on a buffered outbox: the worker goes on to park
SendBuffered == "park"

\* the worker after calling send on the outbox, a bounded(0) channel
\* (sheet_assembly.rs:37): blocked until poll receives
SendRendezvous == "send"

\* try_iter ended: grow, blit, create the texture and offer the feedback;
\* the send then blocks until poll receives
WorkerBuild ==
    /\ wpc = "drain"
    /\ inbox = <<>>
    /\ LET g == Grow
           b == IF g.panicked THEN g ELSE Blit(g.buf, g.size, 1)
       IN IF b.panicked
          THEN /\ wpc' = "dead"
               /\ UNCHANGED <<sheet, sheet_size, outbox, passes>>
          ELSE /\ sheet' = b.buf
               /\ sheet_size' = g.size
               /\ passes' = passes + 1
               /\ outbox' = Feedback(allocations,
                    TextureFromData(<<"sheet", passes + 1>>, b.buf, g.size, g.size))
               /\ wpc' = SendRendezvous
    /\ UNCHANGED <<registryVars, inbox, token, layout, allocations, datas,
                   recorderVars, bufferVars, phase, returned, images, limits, made, unparks, stale, skipped, app>>

----------------------------------------------------------------------------
(* Color and Transform, graphics/renderer.rs:8-35, graphics/transform.rs *)

Color(r, g, b, a) == [r |-> r, g |-> g, b |-> b, a |-> a]

\* impl Default for Color
ColorDefault == Color(0, 0, 0, 1)

Row(x, y, z) == [x |-> x, y |-> y, z |-> z]

Transform(x, y, z) == [x |-> x, y |-> y, z |-> z]

\* Transform::identity
identity == Transform(Row(1, 0, 0), Row(0, 1, 0), Row(0, 0, 1))

\* a translation with its offsets exchanged
translationSwapped(x, y) == [x |-> [x |-> 1, y |-> 0, z |-> y],
                            y |-> [x |-> 0, y |-> 1, z |-> x],
                            z |-> [x |-> 0, y |-> 0, z |-> 1]]

\* Transform::translation
translation(x, y) == Transform(Row(1, 0, x), Row(0, 1, y), Row(0, 0, 1))

\* Transform::scaling
scaling(x, y) == Transform(Row(x, 0, 0), Row(0, y, 0), Row(0, 0, 1))

\* Transform::shearing
shearing(x, y) == Transform(Row(1, x, 0), Row(y, 1, 0), Row(0, 0, 1))

\* Transform::combine
combine(self, other) ==
    Transform(
        Row(self.x.x * other.x.x + self.x.y * other.y.x + self.x.z * other.z.x,
            self.x.x * other.x.y + self.x.y * other.y.y + self.x.z * other.z.y,
            self.x.x * other.x.z + self.x.y * other.y.z + self.x.z * other.z.z),
        Row(self.y.x * other.x.x + self.y.y * other.y.x + self.y.z * other.z.x,
            self.y.x * other.x.y + self.y.y * other.y.y + self.y.z * other.z.y,
            self.y.x * other.x.z + self.y.y * other.y.z + self.y.z * other.z.z),
        Row(self.z.x * other.x.x + self.z.y * other.y.x + self.z.z * other.z.x,
            self.z.x * other.x.y + self.z.y * other.y.y + self.z.z * other.z.y,
            self.z.x * other.x.z + self.z.y * other.y.z + self.z.z * other.z.z))

\* a translate that post-multiplies (new = self * op)
translateBefore(self, x, y) == combine(self, translation(x, y))

\* Transform::translate
translate(self, x, y) == combine(translation(x, y), self)

\* Transform::scale
scale(self, x, y) == combine(scaling(x, y), self)

\* Transform::shear
shear(self, x, y) == combine(shearing(x, y), self)

\* Transform::apply; vec.z is 1 for every transform the model builds, so
\* the f32 division is exact
apply(self, x, y) ==
    LET vec == Row(self.x.x * x + self.x.y * y + self.x.z,
                   self.y.x * x + self.y.y * y + self.y.z,
                   self.z.x * x + self.z.y * y + self.z.z)
    IN <<vec.x \div vec.z, vec.y \div vec.z>>

\* impl Default for DrawState
DrawStateDefault == [color |-> ColorDefault, transform |-> identity]

\* #[derive(Default)] RenderList
RenderListDefault == [clear_color |-> ColorDefault, commands |-> <<>>]

----------------------------------------------------------------------------
(* Rectangle batch, graphics/rectangle.rs:72-158 *)

RectangleDrawInfo(x, y, width, height, color, transform) ==
    [op |-> "rectangle", x |-> x, y |-> y, width |-> width, height |-> height,
     color |-> color, transform |-> transform]

\* the six indices of a quad counted from the batch's first vertex
QuadIndicesUnshifted(n) == <<0, 2, 1, 3, 1, 2>>

\* the six indices both batches append for a quad, n vertices being present
QuadIndices(n) == <<n, n + 2, n + 1, n + 3, n + 1, n + 2>>

RectVertex(position, color) ==
    [position |-> position, color |-> <<color.r, color.g, color.b, color.a>>]

\* RectangleBatch::add
RectangleBatchAdd(batch, draw_info) ==
    [batch EXCEPT
        !.indices = batch.indices \o QuadIndices(Len(batch.vertices)),
        !.vertices = batch.vertices \o <<
            RectVertex(apply(draw_info.transform, draw_info.x, draw_info.y),
                       draw_info.color),
            RectVertex(apply(draw_info.transform, draw_info.x + draw_info.width,
                             draw_info.y), draw_info.color),
            RectVertex(apply(draw_info.transform, draw_info.x,
                             draw_info.y + draw_info.height), draw_info.color),
            RectVertex(apply(draw_info.transform, draw_info.x + draw_info.width,
                             draw_info.y + draw_info.height), draw_info.color)>>]

\* RectangleBatch::new
RectangleBatchNew(draw_info) ==
    RectangleBatchAdd([kind |-> "RectangleBatch", vertices |-> <<>>, indices |-> <<>>],
                      draw_info)

----------------------------------------------------------------------------
(* Sprite batch, graphics/sprite.rs:290-406 *)

SpriteDrawInfo(handle, x, y, transform) ==
    [op |-> "sprite", handle |-> handle, x |-> x, y |-> y, transform |-> transform]

RECURSIVE Gcd(_, _)
Gcd(a, b) == IF b = 0 THEN a ELSE Gcd(b, a % b)

\* the f32 quotient n / d of two integers (d > 0), as a reduced fraction
Quot(n, d) == LET g == Gcd(n, d) IN IF g = 0 THEN <<0, 1>> ELSE <<n \div g, d \div g>>

SpriteVertex(position, tex_coords) == [position |-> position, tex_coords |-> tex_coords]

\* an atlased sprite resolving to a sheet texture of its own
ResolveTexturePerSprite(handle) ==
    LET sprite == sprites[handle + 1]
    IN IF sprite.kind = "Texture" THEN sprite.texture
       ELSE [spritesheet EXCEPT !.id = <<"sheet of", handle>>]

\* the texture a draw of the handle resolves to (SpriteBatch::new, try_add)
ResolveTexture(handle) ==
    LET sprite == sprites[handle + 1]
    IN IF sprite.kind = "Texture" THEN sprite.texture ELSE spritesheet

\* the (width, height, region) that SpriteBatch::add computes, lines 350-375
SpriteExtent(handle) ==
    LET sprite == sprites[handle + 1]
    IN IF sprite.kind = "Texture"
       THEN [width |-> sprite.texture.width, height |-> sprite.texture.height,
             region |-> TextureRegion(Quot(0, 1), Quot(0, 1), Quot(1, 1), Quot(1, 1))]
       ELSE [width |-> sprite.region.right - sprite.region.left,
             height |-> sprite.region.bottom - sprite.region.top,
             region |-> TextureRegion(
                Quot(sprite.region.left, spritesheet.width),
                Quot(sprite.region.top, spritesheet.height),
                Quot(sprite.region.right, spritesheet.width),
                Quot(sprite.region.bottom, spritesheet.height))]

\* SpriteBatch::add
SpriteBatchAdd(batch, draw_info) ==
    LET e == SpriteExtent(draw_info.handle)
    IN [batch EXCEPT
        !.indices = batch.indices \o QuadIndices(Len(batch.vertices)),
        !.vertices = batch.vertices \o <<
            SpriteVertex(apply(draw_info.transform, draw_info.x, draw_info.y),
                         <<e.region.left, e.region.top>>),
            SpriteVertex(apply(draw_info.transform, draw_info.x + e.width, draw_info.y),
                         <<e.region.right, e.region.top>>),
            SpriteVertex(apply(draw_info.transform, draw_info.x, draw_info.y + e.height),
                         <<e.region.left, e.region.bottom>>),
            SpriteVertex(apply(draw_info.transform, draw_info.x + e.width,
                               draw_info.y + e.height),
                         <<e.region.right, e.region.bottom>>)>>]

\* SpriteBatch::new
SpriteBatchNew(draw_info) ==
    SpriteBatchAdd([kind |-> "SpriteBatch", texture |-> ResolveTexture(draw_info.handle),
                    vertices |-> <<>>, indices |-> <<>>], draw_info)

\* textures compared by their contents instead of by allocation
PtrEqByContent(a, b) == a.width = b.width /\ a.height = b.height

\* Arc::ptr_eq
PtrEq(a, b) == a.id = b.id

\* SpriteBatch::try_add: [ok, batch]; ok: batch is self extended; otherwise
\* batch is the new batch of the Err value
SpriteBatchTryAdd(batch, draw_info) ==
    IF ~PtrEq(batch.texture, ResolveTexture(draw_info.handle))
    THEN [ok |-> FALSE, batch |-> SpriteBatchNew(draw_info)]
    ELSE [ok |-> TRUE, batch |-> SpriteBatchAdd(batch, draw_info)]

----------------------------------------------------------------------------
(* Public drawing API, graphics.rs:28-148 *)

\* graphics::create_sprite, called from main or from any callback:
\* context::get() unwraps CONTEXT, which is None until Internals::new has
\* called context::init
ApiCreateSprite ==
    /\ ~app.panicked
    /\ app.stage # "exited"
    /\ phase # "poll"
    /\ IF app.context
       THEN \E width \in limits.dims, height \in limits.dims :
                CreateSprite(width, height)
       ELSE /\ limits.dims # {}
            /\ app' = [app EXCEPT !.panicked = TRUE]
            /\ UNCHANGED <<registryVars, inbox, token, workerVars, recorderVars,
                           bufferVars, phase, returned, images, limits, made, unparks, stale,
                           skipped>>

\* reset emptying the render list as well
ApiResetClearingList ==
    /\ ContextGet
    /\ Len(trace) < limits.calls
    /\ draw_state' = DrawStateDefault
    /\ render_list' = RenderListDefault
    /\ trace' = Append(trace, [op |-> "reset"])
    /\ UNCHANGED <<registryVars, inbox, token, workerVars,
                   bufferVars, phase, returned, images, limits, made, unparks, stale, skipped, app>>

\* graphics::reset
ApiReset ==
    /\ ContextGet
    /\ Len(trace) < limits.calls
    /\ draw_state' = DrawStateDefault
    /\ trace' = Append(trace, [op |-> "reset"])
    /\ UNCHANGED <<registryVars, inbox, token, workerVars, render_list,
                   bufferVars, phase, returned, images, limits, made, unparks, stale, skipped, app>>

\* graphics::set_color
ApiSetColor(r, g, b, a) ==
    /\ ContextGet
    /\ Len(trace) < limits.calls
    /\ draw_state' = [draw_state EXCEPT !.color = Color(r, g, b, a)]
    /\ trace' = Append(trace, [op |-> "set_color", color |-> Color(r, g, b, a)])
    /\ UNCHANGED <<registryVars, inbox, token, workerVars, render_list,
                   bufferVars, phase, returned, images, limits, made, unparks, stale, skipped, app>>

\* clear with the clear color left as it was stored
ClearedKeepingColor(list, state) == [commands |-> <<>>, clear_color |-> list.clear_color]

\* the render list after clear, lines 52-53
Cleared(list, state) == [commands |-> <<>>, clear_color |-> state.color]

\* graphics::clear
ApiClear ==
    /\ ContextGet
    /\ Len(trace) < limits.calls
    /\ render_list' = Cleared(render_list, draw_state)
    /\ trace' = Append(trace, [op |-> "clear"])
    /\ UNCHANGED <<registryVars, inbox, token, workerVars, draw_state,
                   bufferVars, phase, returned, images, limits, made, unparks, stale, skipped, app>>

\* commands.last_mut() is Some(RenderCommand::<kind>(_))
LastIs(commands, kind) ==
    /\ commands # <<>>
    /\ commands[Len(commands)].kind = kind

\* the batch put in front of the commands
PushFront(commands, batch) == <<batch>> \o commands

\* Vec::push
Push(commands, batch) == Append(commands, batch)

\* the extended batch written over the first command
SetFirst(commands, batch) == [commands EXCEPT ![1] = batch]

\* the batch behind last_mut() replaced by its extension
SetLast(commands, batch) == [commands EXCEPT ![Len(commands)] = batch]

\* rectangle pushing a new batch for every call
RectangleCommandsAlwaysPush(commands, draw_info) ==
    Push(commands, RectangleBatchNew(draw_info))

\* the commands after graphics::rectangle recorded draw_info
RectangleCommands(commands, draw_info) ==
    IF LastIs(commands, "RectangleBatch")
    THEN SetLast(commands, RectangleBatchAdd(commands[Len(commands)], draw_info))
    ELSE Push(commands, RectangleBatchNew(draw_info))

\* graphics::rectangle
ApiRectangle(x, y, width, height) ==
    /\ ContextGet
    /\ Len(trace) < limits.calls
    /\ LET draw_info == RectangleDrawInfo(x, y, width, height,
                                          draw_state.color, draw_state.transform)
       IN /\ render_list' = [render_list EXCEPT
                                !.commands = RectangleCommands(@, draw_info)]
          /\ trace' = Append(trace, draw_info)
    /\ UNCHANGED <<registryVars, inbox, token, workerVars, draw_state,
                   bufferVars, phase, returned, images, limits, made, unparks, stale, skipped, app>>

\* the commands after Sprite::draw recorded draw_info
SpriteCommands(commands, draw_info) ==
    IF LastIs(commands, "SpriteBatch")
    THEN LET t == SpriteBatchTryAdd(commands[Len(commands)], draw_info)
         IN IF t.ok THEN SetLast(commands, t.batch) ELSE Push(commands, t.batch)
    ELSE Push(commands, SpriteBatchNew(draw_info))

\* graphics::drawable(&sprite, x, y), impl Draw for Sprite; the handle is
\* one that create_sprite returned
ApiDrawSprite(handle, x, y) ==
    /\ ContextGet
    /\ Len(trace) < limits.calls
    /\ handle < Len(sprites)
    /\ LET draw_info == SpriteDrawInfo(handle, x, y, draw_state.transform)
       IN /\ render_list' = [render_list EXCEPT
                                !.commands = SpriteCommands(@, draw_info)]
          /\ trace' = Append(trace, draw_info)
    /\ UNCHANGED <<registryVars, inbox, token, workerVars, draw_state,
                   bufferVars, phase, returned, images, limits, made, unparks, stale, skipped, app>>

\* graphics::origin
ApiOrigin ==
    /\ ContextGet
    /\ Len(trace) < limits.calls
    /\ draw_state' = [draw_state EXCEPT !.transform = identity]
    /\ trace' = Append(trace, [op |-> "origin"])
    /\ UNCHANGED <<registryVars, inbox, token, workerVars, render_list,
                   bufferVars, phase, returned, images, limits, made, unparks, stale, skipped, app>>

\* graphics::scale
ApiScale(x, y) ==
    /\ ContextGet
    /\ Len(trace) < limits.calls
    /\ draw_state' = [draw_state EXCEPT !.transform = scale(@, x, y)]
    /\ trace' = Append(trace, [op |-> "scale", x |-> x, y |-> y])
    /\ UNCHANGED <<registryVars, inbox, token, workerVars, render_list,
                   bufferVars, phase, returned, images, limits, made, unparks, stale, skipped, app>>

\* graphics::translate
ApiTranslate(x, y) ==
    /\ ContextGet
    /\ Len(trace) < limits.calls
    /\ draw_state' = [draw_state EXCEPT !.transform = translate(@, x, y)]
    /\ trace' = Append(trace, [op |-> "translate", x |-> x, y |-> y])
    /\ UNCHANGED <<registryVars, inbox, token, workerVars, render_list,
                   bufferVars, phase, returned, images, limits, made, unparks, stale, skipped, app>>

\* graphics::origin, scale, rotate and shear have the shape of translate:
\* they replace draw_state.transform and touch nothing else.

----------------------------------------------------------------------------
(* Frame: App::window_event(RedrawRequested), internal/app.rs:62-72 *)

\* the context differs from a fresh one in every part that reset restores
ContextUsed ==
    /\ render_list.commands # <<>>
    /\ render_list.clear_color # ColorDefault
    /\ draw_state.color # ColorDefault
    /\ draw_state.transform # identity
    /\ vertex_offset > 0
    /\ index_offset > 0

\* reset leaving the draw state of the previous frame
KeptDrawState == draw_state

\* the draw state that Context::reset assigns, context.rs:22
ResetDrawState == DrawStateDefault

\* RedrawRequested with the Internals present: context::reset enters
\* SpriteRenderer::poll, which unparks the assembler if the inbox is not
\* empty; the worker may run before poll goes on to try_recv
PollUnpark ==
    /\ Running
    /\ app.internals
    /\ EventAllowed
    /\ phase = "idle"
    /\ inbox # <<>> => (limits.unparks = 0 \/ unparks < limits.unparks)
    /\ phase' = "poll"
    /\ token' = PollToken
    /\ unparks' = IF inbox # <<>> /\ limits.unparks > 0 THEN unparks + 1 ELSE unparks
    /\ UNCHANGED <<registryVars, inbox, workerVars, recorderVars, bufferVars,
                   trace, returned, images, limits, made, stale, skipped, app>>

\* the rest of Context::reset: poll's try_recv, then the offsets, the
\* render list and the draw state; the draw callbacks follow
FrameReset ==
    /\ phase = "poll"
    /\ phase' = "draw"
    /\ sprites' = PollSprites
    /\ spritesheet' = PollSheet
    /\ outbox' = NoFeedback
    /\ wpc' = IF outbox.offered THEN "park" ELSE wpc
    /\ vertex_offset' = 0
    /\ index_offset' = 0
    /\ render_list' = [clear_color |-> ColorDefault, commands |-> <<>>]
    /\ draw_state' = ResetDrawState
    /\ trace' = <<>>
    /\ drawcalls' = <<>>
    /\ stale' = ContextUsed
    /\ app' = [app EXCEPT !.calls = Logged("draw")]
    /\ UNCHANGED <<inbox, token, layout, sheet, sheet_size, allocations, datas,
                   passes, returned, images, limits, made, unparks, skipped>>

\* size_of::<rectangle::Vertex>(): [f32; 2] + [f32; 4]
RectVertexBytes == 24
\* size_of::<sprite::Vertex>(): [f32; 2] + [f32; 2]
SpriteVertexBytes == 16
\* size_of::<u32>()
IndexBytes == 4

VertexBytes(batch) ==
    Len(batch.vertices) *
        (IF batch.kind = "RectangleBatch" THEN RectVertexBytes ELSE SpriteVertexBytes)

\* a render that writes every batch at the start of both buffers
BatchRenderAtStart(batch, voff, ioff) ==
    [pipeline |-> IF batch.kind = "RectangleBatch" THEN "rectangle" ELSE "sprite",
     texture |-> IF batch.kind = "SpriteBatch" THEN batch.texture.id ELSE <<"none", 0>>,
     vertex_start |-> 0, vertex_end |-> VertexBytes(batch),
     index_start |-> 0, index_end |-> Len(batch.indices) * IndexBytes,
     index_count |-> Len(batch.indices),
     vertices |-> batch.vertices]

\* RectangleBatch::render / SpriteBatch::render: the draw_indexed call with
\* the ranges written and bound, at the rolling offsets voff and ioff
BatchRender(batch, voff, ioff) ==
    [pipeline |-> IF batch.kind = "RectangleBatch" THEN "rectangle" ELSE "sprite",
     texture |-> IF batch.kind = "SpriteBatch" THEN batch.texture.id ELSE <<"none", 0>>,
     vertex_start |-> voff, vertex_end |-> voff + VertexBytes(batch),
     index_start |-> ioff, index_end |-> ioff + Len(batch.indices) * IndexBytes,
     index_count |-> Len(batch.indices),
     vertices |-> batch.vertices]

RECURSIVE RenderFrom(_, _, _, _)
\* the loop of Renderer::render from command i on: [calls, voff, ioff]
RenderFrom(commands, i, voff, ioff) ==
    IF i > Len(commands) THEN [calls |-> <<>>, voff |-> voff, ioff |-> ioff]
    ELSE LET d == BatchRender(commands[i], voff, ioff)
             rest == RenderFrom(commands, i + 1, d.vertex_end, d.index_end)
         IN [calls |-> <<d>> \o rest.calls, voff |-> rest.voff, ioff |-> rest.ioff]

\* Renderer::render
Render == RenderFrom(render_list.commands, 1, vertex_offset, index_offset)

\* a frame end that renders whether or not there is a surface texture
PresentedAnyway(surface_ok) == Render

\* the if let of RedrawRequested: render and present when
\* get_current_texture() is Ok, nothing otherwise
Presented(surface_ok) ==
    IF surface_ok THEN Render
    ELSE [calls |-> drawcalls, voff |-> vertex_offset, ioff |-> index_offset]

\* the draw callbacks returned: get_current_texture() is Ok (render and
\* present) or Err (the frame is skipped)
EndFrame(surface_ok) ==
    /\ phase = "draw"
    /\ phase' = "idle"
    /\ stale' = FALSE
    /\ skipped' = ~surface_ok
    /\ drawcalls' = Presented(surface_ok).calls
    /\ vertex_offset' = Presented(surface_ok).voff
    /\ index_offset' = Presented(surface_ok).ioff
    /\ UNCHANGED <<registryVars, inbox, token, workerVars, recorderVars,
                   returned, images, limits, made, unparks, app>>

----------------------------------------------------------------------------
(* Specifications *)

\* the state after Renderer::new and context::init, with the bounds lim
InitWith(lim, a) ==
    /\ sprites = <<>>
    /\ spritesheet = TextureEmpty(<<"sheet", 0>>, 1, 1)
    /\ inbox = <<>>
    /\ token = FALSE
    /\ wpc = "park"
    /\ layout = NodeEmpty
    /\ sheet = <<>>
    /\ sheet_size = 0
    /\ allocations = <<>>
    /\ datas = <<>>
    /\ outbox = NoFeedback
    /\ passes = 0
    /\ render_list = RenderListDefault
    /\ draw_state = DrawStateDefault
    /\ vertex_offset = 0
    /\ index_offset = 0
    /\ phase = "idle"
    /\ trace = <<>>
    /\ drawcalls = <<>>
    /\ returned = <<>>
    /\ images = <<>>
    /\ limits = lim
    /\ made = <<>>
    /\ unparks = 0
    /\ stale = FALSE
    /\ skipped = FALSE
    /\ app = a

Worker == WorkerPark \/ WorkerDrain \/ WorkerBuild

Frame == PollUnpark \/ FrameReset \/ \E surface_ok \in BOOLEAN : EndFrame(surface_ok)

DrawCalls ==
    \/ \E g \in RectGeoms : ApiRectangle(g[1], g[2], g[3], g[4])
    \/ \E handle \in 0..(limits.sprites - 1), p \in SpritePositions :
            ApiDrawSprite(handle, p[1], p[2])

StateCalls ==
    \/ ApiReset
    \/ ApiClear
    \/ \E c \in Colors : ApiSetColor(c[1], c[2], c[3], c[4])
    \/ \E t \in Translations : ApiTranslate(t[1], t[2])

\* The recorder: callbacks that create two unit sprites, draw, clear, and
\* set the color and the translation
Init == InitWith([sprites |-> Cardinality(DrawHandles), calls |-> MaxCalls,
                  dims |-> UnitDims, events |-> 0, unparks |-> 0],
             AppLoaded)

Next == ApiCreateSprite \/ Worker \/ Frame \/ DrawCalls \/ StateCalls

Spec == Init /\ [][Next]_vars

\* The recorder with one sprite and one more call per frame
OneInit == InitWith([sprites |-> 1, calls |-> MaxCalls + 1, dims |-> UnitDims, events |-> 0, unparks |-> 0],
             AppLoaded)

SpecOne == OneInit /\ [][Next]_vars

\* The assembler: sprites of several shapes, callbacks that draw sprites only
AsmInit == InitWith([sprites |-> MaxSprites, calls |-> 1, dims |-> SpriteDims, events |-> 0, unparks |-> 0],
             AppLoaded)

AsmNext ==
    \/ ApiCreateSprite
    \/ Worker
    \/ Frame
    \/ \E handle \in 0..(limits.sprites - 1), p \in SpritePositions :
            ApiDrawSprite(handle, p[1], p[2])

SpecAsm == AsmInit /\ [][AsmNext]_vars

\* HeartBuilder::run -> app::run: the event loop starts
Run ==
    /\ app.stage = "main"
    /\ ~app.panicked
    /\ app' = [app EXCEPT !.stage = "running"]
    /\ UNCHANGED <<registryVars, inbox, token, workerVars, recorderVars,
                   bufferVars, phase, returned, images, limits, made, unparks, stale, skipped>>

\* App::resumed; init_ok: Internals::new returned Some (window, surface,
\* adapter, format and device were all available)
EvResumed(init_ok) ==
    /\ Running
    /\ EventAllowed
    /\ phase = "idle"
    /\ app' = IF init_ok
              THEN [app EXCEPT !.internals = TRUE, !.context = TRUE,
                               !.calls = Logged("load")]
              ELSE [app EXCEPT !.exiting = TRUE]
    /\ UNCHANGED <<registryVars, inbox, token, workerVars, recorderVars,
                   bufferVars, phase, returned, images, limits, made, unparks, stale, skipped>>

\* App::about_to_wait; tick: Clock::tick found more than tick_duration
\* collected
EvAboutToWait(tick) ==
    /\ Running
    /\ EventAllowed
    /\ phase = "idle"
    /\ app' = IF tick THEN [app EXCEPT !.calls = Logged("update")] ELSE app
    /\ UNCHANGED <<registryVars, inbox, token, workerVars, recorderVars,
                   bufferVars, phase, returned, images, limits, made, unparks, stale, skipped>>

\* run_app returns once exit() was called
LoopExit ==
    /\ Running
    /\ app.exiting
    /\ phase = "idle"
    /\ app' = [app EXCEPT !.stage = "exited"]
    /\ UNCHANGED <<registryVars, inbox, token, workerVars, recorderVars,
                   bufferVars, phase, returned, images, limits, made, unparks, stale, skipped>>

Events ==
    \/ Run
    \/ \E init_ok \in BOOLEAN : EvResumed(init_ok)
    \/ \E tick \in BOOLEAN : EvAboutToWait(tick)
    \/ LoopExit

\* The event loop: resumed, about_to_wait and RedrawRequested delivered in
\* any order, around a program that creates one sprite
LoopInit == InitWith([sprites |-> 1, calls |-> 0, dims |-> UnitDims,
                      events |-> MaxEvents, unparks |-> 0], AppNew)

LoopNext == Events \/ Frame \/ ApiCreateSprite \/ Worker

SpecLoop == LoopInit /\ [][LoopNext]_vars

\* The coordinate system: load and update callbacks that reset, translate
\* and scale it and draw rectangles, before the first frame
TransformInit == InitWith([sprites |-> 0, calls |-> MaxCalls + 1, dims |-> {},
                           events |-> 0, unparks |-> 0], AppLoaded)

TransformNext ==
    \/ ApiOrigin
    \/ \E t \in TransformOffsets : ApiTranslate(t[1], t[2])
    \/ \E f \in TransformFactors : ApiScale(f[1], f[2])
    \/ \E g \in RectGeoms : ApiRectangle(g[1], g[2], g[3], g[4])

SpecTransform == TransformInit /\ [][TransformNext]_vars

\* (x, y, width, height) and (r, g, b, a) given to rectangle and set_color
\* where the recorded quads are compared with the calls
QuadGeoms == {<<0, 0, 10, 10>>, <<1, 0, 2, 1>>}

QuadColors == {<<1, 0, 0, 1>>, <<0, 1, 0, 1>>}

\* Rectangles alone: callbacks that set the color, translate and draw
\* rectangles, before the first frame
QuadInit == InitWith([sprites |-> 0, calls |-> MaxCalls + 1, dims |-> {},
                      events |-> 0, unparks |-> 0], AppLoaded)

QuadNext ==
    \/ \E c \in QuadColors : ApiSetColor(c[1], c[2], c[3], c[4])
    \/ \E t \in TransformOffsets : ApiTranslate(t[1], t[2])
    \/ \E g \in QuadGeoms : ApiRectangle(g[1], g[2], g[3], g[4])

SpecQuad == QuadInit /\ [][QuadNext]_vars

\* Buffers::new: size: 0x1000000, for the vertex and for the index buffer
BufferSize == 16777216

\* the quads held by the batches given to render: a batch of N quads is
\* what N rectangle calls in a row, or N draws of one sprite, record
BatchQuadCounts == {1, 2, 174762, 174763, 262144, 699051}

\* the bytes a batch of the given kind and number of quads writes
QuadsVertexBytes(kind, quads) ==
    quads * 4 * (IF kind = "RectangleBatch" THEN RectVertexBytes ELSE SpriteVertexBytes)

QuadsIndexBytes(quads) == quads * 6 * IndexBytes

\* RedrawRequested with a surface texture: Renderer::render begins
RingBeginRender ==
    /\ phase = "draw"
    /\ ~app.panicked
    /\ phase' = "render"
    /\ UNCHANGED <<registryVars, inbox, token, workerVars, recorderVars, bufferVars,
                   returned, images, limits, made, unparks, stale, skipped, app>>

\* RectangleBatch::render / SpriteBatch::render of a batch of the given
\* number of quads: both write_buffer calls at the rolling offsets, which
\* then advance; a write past the end of a buffer is a validation error
\* of queue.write_buffer, which panics
RingBatchRender(kind, quads) ==
    /\ phase = "render"
    /\ ~app.panicked
    /\ Len(drawcalls) < limits.calls
    /\ drawcalls' = Append(drawcalls,
          [pipeline |-> IF kind = "RectangleBatch" THEN "rectangle" ELSE "sprite",
           quads |-> quads,
           vertex_start |-> vertex_offset,
           vertex_end |-> vertex_offset + QuadsVertexBytes(kind, quads),
           index_start |-> index_offset,
           index_end |-> index_offset + QuadsIndexBytes(quads),
           index_count |-> quads * 6])
    /\ vertex_offset' = vertex_offset + QuadsVertexBytes(kind, quads)
    /\ index_offset' = index_offset + QuadsIndexBytes(quads)
    /\ app' = [app EXCEPT !.panicked =
                  \/ vertex_offset + QuadsVertexBytes(kind, quads) > BufferSize
                  \/ index_offset + QuadsIndexBytes(quads) > BufferSize]
    /\ UNCHANGED <<registryVars, inbox, token, workerVars, recorderVars,
                   phase, returned, images, limits, made, unparks, stale, skipped>>

\* the loop over the commands ended: submit and present
RingEndRender ==
    /\ phase = "render"
    /\ ~app.panicked
    /\ phase' = "idle"
    /\ UNCHANGED <<registryVars, inbox, token, workerVars, recorderVars, bufferVars,
                   returned, images, limits, made, unparks, stale, skipped, app>>

\* The ring buffers: frames whose render list holds up to MaxCalls batches
RingInit == InitWith([sprites |-> 0, calls |-> MaxCalls, dims |-> {},
                      events |-> 0, unparks |-> 0], AppLoaded)

RingNext ==
    \/ PollUnpark
    \/ FrameReset
    \/ RingBeginRender
    \/ \E kind \in {"RectangleBatch", "SpriteBatch"}, quads \in BatchQuadCounts :
            RingBatchRender(kind, quads)
    \/ RingEndRender

SpecRing == RingInit /\ [][RingNext]_vars

\* Scancode as usize: the variants are numbered from Backquote = 0 in the
\* order of the enum; Unidentified is the last one (keyboard.rs:347)
Unidentified == 111

\* const KEY_COUNT: usize = Scancode::Unidentified as usize
KEY_COUNT == Unidentified

\* the scancodes of the key events and queries: the first two variants,
\* the last one before Unidentified (Pause), and Unidentified, which
\* physical_key_to_scancode returns for every key it does not list
KeyInputs == {0, 1, Unidentified - 1, Unidentified}

\* keyboard::state::get_key: keys[key as usize].load(); app.keys is the set
\* of the indices i < KEY_COUNT with keys[i] true; an index outside the
\* array panics
get_key(key) ==
    IF key < KEY_COUNT
    THEN [value |-> key \in app.keys, panicked |-> FALSE]
    ELSE [value |-> FALSE, panicked |-> TRUE]

\* keyboard::state::set_key: keys[key as usize].store(pressed)
set_key(key, pressed) ==
    IF key < KEY_COUNT
    THEN [keys |-> IF pressed THEN app.keys \cup {key} ELSE app.keys \ {key},
          panicked |-> FALSE]
    ELSE [keys |-> app.keys, panicked |-> TRUE]

\* App::window_event(KeyboardInput { repeat: false, .. }): the state is
\* stored, then the key_pressed or key_released callbacks run
EvKeyboardInput(scancode, pressed) ==
    /\ Running
    /\ app.internals
    /\ Len(trace) < limits.calls
    /\ app' = [app EXCEPT !.keys = set_key(scancode, pressed).keys,
                          !.panicked = set_key(scancode, pressed).panicked]
    /\ trace' = Append(trace, [op |-> "key", scancode |-> scancode,
                               pressed |-> pressed,
                               panicked |-> set_key(scancode, pressed).panicked])
    /\ UNCHANGED <<registryVars, inbox, token, workerVars, render_list, draw_state,
                   bufferVars, phase, returned, images, limits, made, unparks, stale,
                   skipped>>

\* keyboard::is_pressed, called from a callback
ApiIsPressed(scancode) ==
    /\ Running
    /\ Len(trace) < limits.calls
    /\ app' = [app EXCEPT !.panicked = get_key(scancode).panicked]
    /\ trace' = Append(trace, [op |-> "is_pressed", scancode |-> scancode,
                               value |-> get_key(scancode).value,
                               panicked |-> get_key(scancode).panicked])
    /\ UNCHANGED <<registryVars, inbox, token, workerVars, render_list, draw_state,
                   bufferVars, phase, returned, images, limits, made, unparks, stale,
                   skipped>>

\* The keyboard: key events and callbacks that ask for the state of a key
KeysInit == InitWith([sprites |-> 0, calls |-> MaxCalls + 1, dims |-> {},
                      events |-> 0, unparks |-> 0], AppLoaded)

KeysNext ==
    \/ \E scancode \in KeyInputs, pressed \in BOOLEAN :
            EvKeyboardInput(scancode, pressed)
    \/ \E scancode \in KeyInputs : ApiIsPressed(scancode)

SpecKeys == KeysInit /\ [][KeysNext]_vars

\* Config.tick_duration and the times between two calls of Clock::tick,
\* in one unit (Duration counts whole nanoseconds)
TickDurations == {0, 1, 3}

ElapsedTimes == {0, 1, 2, 3, 4, 7}

\* Clock::tick keeping all the time beyond one tick
ClockTickCarrying(collected, elapsed, duration) ==
    IF collected + elapsed > duration
    THEN [collected |-> collected + elapsed - duration, fired |-> TRUE]
    ELSE [collected |-> collected + elapsed, fired |-> FALSE]

\* Clock::tick, elapsed being now - self.last: [collected, fired]
ClockTick(collected, elapsed, duration) ==
    IF collected + elapsed > duration
    THEN [collected |-> IF collected + elapsed - duration > duration THEN 0
                        ELSE collected + elapsed - duration,
          fired |-> TRUE]
    ELSE [collected |-> collected + elapsed, fired |-> FALSE]

\* Executor::update: the update callbacks run once if the clock ticked
ExecutorUpdate(elapsed) ==
    /\ Running
    /\ Len(trace) < limits.calls
    /\ LET t == ClockTick(app.collected, elapsed, app.tick_duration)
       IN /\ app' = [app EXCEPT !.collected = t.collected,
                                !.calls = IF t.fired THEN Logged("update") ELSE @]
          /\ trace' = Append(trace,
                [op |-> "tick", elapsed |-> elapsed, fired |-> t.fired,
                 updates |-> IF t.fired THEN 1 ELSE 0])
    /\ UNCHANGED <<registryVars, inbox, token, workerVars, render_list, draw_state,
                   bufferVars, phase, returned, images, limits, made, unparks, stale,
                   skipped>>

\* The clock: an Executor with any of the tick durations, updated after
\* any of the elapsed times
ClockInit ==
    \E d \in TickDurations :
        InitWith([sprites |-> 0, calls |-> MaxCalls + 1, dims |-> {},
                  events |-> MaxCalls + 1, unparks |-> 0],
                 [AppLoaded EXCEPT !.tick_duration = d])

ClockNext == \E elapsed \in ElapsedTimes : ExecutorUpdate(elapsed)

SpecClock == ClockInit /\ [][ClockNext]_vars

\* create_device (graphics/renderer.rs:200-220), run inside App::resumed by
\* Internals::new and Renderer::new. app.device: pc is "none" (not called),
\* "poll" (about to poll the future), "park" (poll returned Pending, park
\* is next), "done" (the loop broke) or "returned" (resumed returned);
\* future is "pending", "ok" or "err"; token is the park token of the
\* calling thread; registered: a poll has handed the waker to the future;
\* waking: the completed request has yet to call the waker

\* an unpark that leaves the park token as it is
WakerWakeLost == app.device.token

\* Waker::wake: self.0.unpark() sets the park token of the calling thread
WakerWake == TRUE

\* App::resumed up to create_device; pre_ok: the window, the surface, an
\* adapter and the texture format were available
ResumedBegin(pre_ok) ==
    /\ Running
    /\ app.device.pc = "none"
    /\ ~app.internals /\ ~app.exiting
    /\ app' = IF pre_ok
              THEN [app EXCEPT !.device.pc = "poll"]
              ELSE [app EXCEPT !.device.pc = "returned", !.exiting = TRUE]
    /\ UNCHANGED <<registryVars, inbox, token, workerVars, recorderVars, bufferVars,
                   phase, returned, images, limits, made, unparks, stale, skipped>>

\* the device request completes, at any point of the loop; it owes a wake
\* to the waker that the last poll registered
DeviceReady(ok) ==
    /\ Running
    /\ app.device.pc \in {"poll", "park"}
    /\ app.device.future = "pending"
    /\ app' = [app EXCEPT
                  !.device.future = IF ok THEN "ok" ELSE "err",
                  !.device.waking = app.device.registered]
    /\ UNCHANGED <<registryVars, inbox, token, workerVars, recorderVars, bufferVars,
                   phase, returned, images, limits, made, unparks, stale, skipped>>

\* the completed request calls the registered waker, wherever the loop is
DeviceWake ==
    /\ app.device.waking
    /\ app' = [app EXCEPT !.device.waking = FALSE, !.device.token = WakerWake]
    /\ UNCHANGED <<registryVars, inbox, token, workerVars, recorderVars, bufferVars,
                   phase, returned, images, limits, made, unparks, stale, skipped>>

\* future.as_mut().poll(&mut context): Ready breaks the loop, Pending
\* leaves the waker with the future and goes on to park
DevicePoll ==
    /\ Running
    /\ app.device.pc = "poll"
    /\ app' = IF app.device.future = "pending"
              THEN [app EXCEPT !.device.pc = "park", !.device.registered = TRUE]
              ELSE [app EXCEPT !.device.pc = "done"]
    /\ trace' = Append(trace, [op |-> "poll", ready |-> app.device.future # "pending"])
    /\ UNCHANGED <<registryVars, inbox, token, workerVars, render_list, draw_state,
                   bufferVars, phase, returned, images, limits, made, unparks, stale,
                   skipped>>

\* thread::park returns at once or later, consuming the token
DevicePark ==
    /\ Running
    /\ app.device.pc = "park"
    /\ app.device.token
    /\ app' = [app EXCEPT !.device.pc = "poll", !.device.token = FALSE]
    /\ trace' = Append(trace, [op |-> "park", spurious |-> FALSE])
    /\ UNCHANGED <<registryVars, inbox, token, workerVars, render_list, draw_state,
                   bufferVars, phase, returned, images, limits, made, unparks, stale,
                   skipped>>

\* thread::park returns without a token (it may wake spuriously)
DeviceParkSpurious ==
    /\ Running
    /\ app.device.pc = "park"
    /\ ~app.device.token
    /\ Len(trace) < limits.calls
    /\ app' = [app EXCEPT !.device.pc = "poll"]
    /\ trace' = Append(trace, [op |-> "park", spurious |-> TRUE])
    /\ UNCHANGED <<registryVars, inbox, token, workerVars, render_list, draw_state,
                   bufferVars, phase, returned, images, limits, made, unparks, stale,
                   skipped>>

\* create_device returned result.ok(): with None Renderer::new and
\* Internals::new return None and resumed calls event_loop.exit(); with a
\* device Internals::new goes on to context::init and resumed calls load
ResumedEnd ==
    /\ Running
    /\ app.device.pc = "done"
    /\ app' = IF app.device.future = "ok"
              THEN [app EXCEPT !.device.pc = "returned", !.internals = TRUE,
                               !.context = TRUE, !.calls = Logged("load")]
              ELSE [app EXCEPT !.device.pc = "returned", !.exiting = TRUE]
    /\ UNCHANGED <<registryVars, inbox, token, workerVars, recorderVars, bufferVars,
                   phase, returned, images, limits, made, unparks, stale, skipped>>

\* Startup: the event loop from App::new through resumed, create_device's
\* loop unfolded, the device request completing within finite time
DeviceInit == InitWith([sprites |-> 0, calls |-> 3 * MaxCalls, dims |-> {},
                        events |-> MaxEvents, unparks |-> 0], AppNew)

DeviceNext ==
    \/ Run
    \/ \E pre_ok \in BOOLEAN : ResumedBegin(pre_ok)
    \/ \E ok \in BOOLEAN : DeviceReady(ok)
    \/ DeviceWake
    \/ DevicePoll
    \/ DevicePark
    \/ DeviceParkSpurious
    \/ ResumedEnd
    \/ LoopExit

SpecDevice ==
    /\ DeviceInit /\ [][DeviceNext]_vars
    /\ WF_vars(DeviceWake)
    /\ WF_vars(DevicePoll)
    /\ WF_vars(DevicePark)
    /\ WF_vars(ResumedEnd)

\* width and height: u32
U32 == 0..(2 ^ U32Bits - 1)

\* usize arithmetic wraps at this value when overflow checks are off
UsizeModulus == 2 ^ (2 * U32Bits)

\* the lengths of the buffers given to from_data
DataLens == {0, 1, 3, 4, 5, 8, 12, 15}

\* a buffer of n bytes
Buffer(n) == [k \in 1..n |-> k]

\* Image::from_data; overflow_checks: the build panics on arithmetic
\* overflow (debug profile) instead of wrapping (release profile)
FromDataOutcome(data, width, height, overflow_checks) ==
    LET product == width * height * 4
    IN IF product >= UsizeModulus /\ overflow_checks
       THEN [outcome |-> "panic"]
       ELSE IF Len(data) # product % UsizeModulus
            THEN [outcome |-> "panic"]
            ELSE [outcome |-> "image",
                  image |-> [data |-> data, width |-> width, height |-> height]]

\* a call of Image::from_data on the main thread
FromData(data, width, height, overflow_checks) ==
    /\ Len(made) < limits.calls
    /\ \A i \in 1..Len(made) : made[i].result.outcome # "panic"
    /\ made' = Append(made,
                    [data |-> data, width |-> width, height |-> height,
                     result |-> FromDataOutcome(data, width, height,
                                                overflow_checks)])
    /\ UNCHANGED <<registryVars, inbox, token, workerVars, recorderVars,
                   bufferVars, phase, returned, images, limits, unparks, stale,
                   skipped, app>>

\* Images made from raw bytes before the event loop runs
ImageInit == InitWith([sprites |-> 0, calls |-> MaxImages, dims |-> {},
                       events |-> 0, unparks |-> 0], AppNew)

ImageNext ==
    \E n \in DataLens, width \in U32, height \in U32, overflow_checks \in BOOLEAN :
        FromData(Buffer(n), width, height, overflow_checks)

SpecImage == ImageInit /\ [][ImageNext]_vars

\* The assembler with its unparks counted
UnparkInit == InitWith([sprites |-> MaxSprites, calls |-> 0, dims |-> UnitDims,
                        events |-> 0, unparks |-> MaxUnparks], AppLoaded)

UnparkNext == ApiCreateSprite \/ Worker \/ Frame

SpecUnpark == UnparkInit /\ [][UnparkNext]_vars

\* The assembler alone, with a fairly scheduled worker thread and an event
\* loop that keeps redrawing (about_to_wait requests a redraw every
\* iteration): callbacks that create unit sprites and draw nothing
FairInit == InitWith([sprites |-> MaxSprites, calls |-> 0, dims |-> UnitDims, events |-> 0, unparks |-> 0],
             AppLoaded)

FairNext == ApiCreateSprite \/ Worker \/ Frame

SpecAsmFair ==
    /\ FairInit /\ [][FairNext]_vars
    /\ WF_vars(Worker)
    /\ WF_vars(PollUnpark)
    /\ WF_vars(FrameReset)
    /\ WF_vars(\E surface_ok \in BOOLEAN : EndFrame(surface_ok))

\* (width, height) given to alloc where the root grows in steps of 8 to 64
GrowShapes == {<<16, 16>>, <<32, 32>>, <<8, 8>>, <<8, 16>>, <<0, 0>>}

\* The packer alone: any sequence of alloc calls on a fresh root
PackerAlloc(width, height) ==
    /\ Len(returned) < MaxAllocs
    /\ ~(\E i \in 1..Len(returned) : returned[i].panicked)
    /\ LET a == alloc(layout, width, height)
       IN /\ layout' = a.node
          /\ returned' = Append(returned,
                [width |-> width, height |-> height,
                 region |-> a.region, size |-> NodeSize(a.node),
                 before |-> NodeSize(layout), panicked |-> a.panicked])
    /\ UNCHANGED <<registryVars, inbox, token, wpc, sheet, sheet_size, allocations,
                   datas, outbox, passes, recorderVars, bufferVars, phase, images,
                   limits, made, unparks, stale, skipped, app>>

PackerInit == InitWith([sprites |-> 0, calls |-> 0, dims |-> {}, events |-> 0, unparks |-> 0],
             AppLoaded)

PackerNext == \E shape \in PackerShapes : PackerAlloc(shape[1], shape[2])

SpecPacker == PackerInit /\ [][PackerNext]_vars

\* The packer alone, for sprites of 8 to 32 pixels
GrowNext == \E shape \in GrowShapes : PackerAlloc(shape[1], shape[2])

SpecGrow == PackerInit /\ [][GrowNext]_vars

----------------------------------------------------------------------------
(* Properties of the packer *)

\* a region holds no pixel
RegionEmpty(a) == a.right <= a.left \/ a.bottom <= a.top

\* two regions share no pixel
RegionsDisjoint(a, b) ==
    \/ RegionEmpty(a) \/ RegionEmpty(b)
    \/ a.right <= b.left \/ b.right <= a.left
    \/ a.bottom <= b.top \/ b.bottom <= a.top

\* every pixel of the region is in [0, size) x [0, size)
RegionWithin(a, size) ==
    /\ 0 <= a.left /\ a.left <= a.right /\ a.right <= size
    /\ 0 <= a.top /\ a.top <= a.bottom /\ a.bottom <= size

\* C1: the rectangles returned by any sequence of alloc calls on a fresh
\* packer are pairwise disjoint, and each lies within the square of the
\* root's size after the last call.
AtlasDisjointWithinRoot ==
    /\ \A i, j \in 1..Len(returned) :
            i < j => RegionsDisjoint(returned[i].region, returned[j].region)
    /\ \A i \in 1..Len(returned) : RegionWithin(returned[i].region, NodeSize(layout))

\* C1 witness: four allocations, the root grown twice, to edge 8 or more
AtlasDisjointWitness ==
    /\ Len(returned) >= 4
    /\ NodeSize(layout) >= 8
    /\ Cardinality({i \in 1..Len(returned) : returned[i].before < returned[i].size
                                              /\ returned[i].before > 0}) >= 2
    /\ \A i \in 1..Len(returned) : ~RegionEmpty(returned[i].region)

----------------------------------------------------------------------------
(* Properties of the recorder *)

Last(seq) == seq[Len(seq)]

Front(seq) == SubSeq(seq, 1, Len(seq) - 1)

\* this step is a public drawing call of the given kind
CallStep(op) == Len(trace') = Len(trace) + 1 /\ Last(trace').op = op

\* the draw of this step extends the last command
ExtendsLast ==
    /\ Len(render_list'.commands) = Len(render_list.commands)
    /\ Front(render_list'.commands) = Front(render_list.commands)
    /\ Last(render_list'.commands).kind = Last(render_list.commands).kind
    /\ Len(Last(render_list'.commands).vertices)
            = Len(Last(render_list.commands).vertices) + 4
    /\ Len(Last(render_list'.commands).indices)
            = Len(Last(render_list.commands).indices) + 6

\* the draw of this step appends one batch of the kind, holding one quad
AppendsOne(kind) ==
    /\ Front(render_list'.commands) = render_list.commands
    /\ Last(render_list'.commands).kind = kind
    /\ Len(Last(render_list'.commands).vertices) = 4
    /\ Len(Last(render_list'.commands).indices) = 6

\* the draws of the trace are exactly sprites a, a, b
DrewAAB(a, b) ==
    /\ Len(trace) = 3
    /\ \A i \in 1..3 : trace[i].op = "sprite"
    /\ trace[1].handle = a /\ trace[2].handle = a /\ trace[3].handle = b

SpriteDrawStepOk ==
    CallStep("sprite") =>
        LET resolved == ResolveTexture(Last(trace').handle)
            commands == render_list.commands
        IN IF /\ commands # <<>>
              /\ Last(commands).kind = "SpriteBatch"
              /\ Last(commands).texture.id = resolved.id
           THEN /\ ExtendsLast
                /\ Last(render_list'.commands).texture = Last(commands).texture
           ELSE /\ AppendsOne("SpriteBatch")
                /\ Last(render_list'.commands).texture = resolved

StandaloneAABTwoBatches ==
    \A a, b \in DrawHandles :
        (/\ a # b /\ DrewAAB(a, b)
         /\ sprites[a + 1].kind = "Texture" /\ sprites[b + 1].kind = "Texture")
        => /\ Len(render_list.commands) = 2
           /\ render_list.commands[1].texture = sprites[a + 1].texture
           /\ Len(render_list.commands[1].vertices) = 8
           /\ render_list.commands[2].texture = sprites[b + 1].texture
           /\ Len(render_list.commands[2].vertices) = 4

\* C2: a sprite draw extends the last command exactly when that command is
\* a SpriteBatch bound to the very texture the sprite resolves to (its own
\* texture, or the current sheet when atlased); otherwise it appends one new
\* SpriteBatch bound to the resolved texture and holding only that sprite.
\* Two standalone sprites drawn A, A, B give two batches: A with two quads,
\* then B with one.
SpriteBatchingByTexture == [][SpriteDrawStepOk]_vars /\ []StandaloneAABTwoBatches

\* C2 witness: standalone A, A, B drawn in one frame, recorded as two batches
SpriteBatchingWitness ==
    /\ DrewAAB(0, 1)
    /\ sprites[1].kind = "Texture" /\ sprites[2].kind = "Texture"
    /\ Len(render_list.commands) = 2

RECURSIVE TrailingRects(_)
\* the rectangle calls at the end of the trace, with no sprite draw or
\* clear among them (set_color, translate and reset may be)
TrailingRects(tr) ==
    IF tr = <<>> THEN 0
    ELSE CASE Last(tr).op = "rectangle" -> 1 + TrailingRects(Front(tr))
           [] Last(tr).op \in {"sprite", "clear"} -> 0
           [] OTHER -> TrailingRects(Front(tr))

\* C3: N >= 1 consecutive rectangle calls (set_color and transform calls
\* may come between them), begun on an empty render list or after a
\* SpriteBatch, leave exactly one RectangleBatch for the run: the last
\* command, with 4N vertices and 6N indices, preceded by no RectangleBatch.
RectanglesCoalesce ==
    LET n == TrailingRects(trace)
        commands == render_list.commands
    IN n >= 1 =>
        /\ commands # <<>>
        /\ Last(commands).kind = "RectangleBatch"
        /\ Len(Last(commands).vertices) = 4 * n
        /\ Len(Last(commands).indices) = 6 * n
        /\ Len(commands) > 1 => commands[Len(commands) - 1].kind = "SpriteBatch"

\* C3 witness: a run of two rectangles with a set_color between them,
\* in one batch of 8 vertices and 12 indices
RectanglesCoalesceWitness ==
    /\ Len(trace) = 3
    /\ trace[1].op = "rectangle" /\ trace[2].op = "set_color" /\ trace[3].op = "rectangle"
    /\ Len(render_list.commands) = 1
    /\ Len(render_list.commands[1].vertices) = 8
    /\ Len(render_list.commands[1].indices) = 12

----------------------------------------------------------------------------
(* Properties of the registry and the assembler *)

\* every handle the program holds or has in flight indexes the registry
HandlesInRegistry ==
    /\ \A i \in 1..Len(inbox) : inbox[i].handle < Len(sprites)
    /\ \A i \in 1..Len(allocations) : allocations[i][1] < Len(sprites)
    /\ outbox.offered =>
        \A i \in 1..Len(outbox.updated_sprites) :
            outbox.updated_sprites[i][1] < Len(sprites)
    /\ \A i \in 1..Len(trace) : trace[i].op = "sprite" => trace[i].handle < Len(sprites)

\* every entry is Standalone with a texture of the sprite's own pixels, or
\* Atlased
EntriesStandaloneOrAtlased ==
    /\ Len(images) = Len(sprites)
    /\ \A h \in 1..Len(sprites) :
        \/ /\ sprites[h].kind = "Texture"
           /\ sprites[h].texture.data = images[h].data
           /\ sprites[h].texture.width = images[h].width
           /\ sprites[h].texture.height = images[h].height
        \/ sprites[h].kind = "Sheet"

\* entries are never removed, and one changes only in poll, from Standalone
\* to Atlased
EntryStepOk ==
    /\ Len(sprites') >= Len(sprites)
    /\ \A h \in 1..Len(sprites) :
        sprites'[h] # sprites[h] =>
            /\ phase = "poll" /\ phase' = "draw"
            /\ sprites[h].kind = "Texture"
            /\ sprites'[h].kind = "Sheet"

\* C4: from create_sprite on, the entry of a handle exists and is Standalone
\* (a texture of the sprite's own pixels) or Atlased, so no draw, upload or
\* feedback indexes outside the registry; an entry changes only inside poll,
\* only from Standalone to Atlased, hence at most once.
RegistryEntryLifecycle ==
    /\ [](HandlesInRegistry /\ EntriesStandaloneOrAtlased)
    /\ [][EntryStepOk]_vars

\* C4 witness: one sprite migrated, the other created after that migration
\* and drawn in the frame of its creation while still standalone
RegistryEntryWitness ==
    /\ Len(sprites) = 2
    /\ sprites[1].kind = "Sheet"
    /\ sprites[2].kind = "Texture"
    /\ inbox # <<>>
    /\ phase = "draw"
    /\ Len(trace) = 1 /\ trace[1].op = "sprite" /\ trace[1].handle = 1

\* byte c of pixel (i, j) in a buffer of RGBA8 rows of the given width
PixelByte(data, width, i, j, c) == data[(j * width + i) * PixelBytes + c + 1]

\* the positions of the quad that a draw of the handle at (x, y) records
QuadPositions(handle, x, y) ==
    LET vertices == SpriteBatchNew(SpriteDrawInfo(handle, x, y, identity)).vertices
    IN [k \in 1..4 |-> vertices[k].position]

\* the positions of a quad of the given extent at (x, y)
ExtentPositions(x, y, width, height) ==
    <<apply(identity, x, y), apply(identity, x + width, y),
      apply(identity, x, y + height), apply(identity, x + width, y + height)>>

\* C5: for every Atlased entry, the foreground's current sheet holds at
\* (region.left + i, region.top + j) the sprite's source pixel (i, j), the
\* region has the sprite's width and height, and a draw emits the quad
\* corners of the standalone sprite; later passes keep it so.
AtlasPixelIdentical ==
    \A h \in 1..Len(sprites) :
        sprites[h].kind = "Sheet" =>
            LET region == sprites[h].region
                image == images[h]
            IN /\ region.right - region.left = image.width
               /\ region.bottom - region.top = image.height
               /\ region.right <= spritesheet.width
               /\ region.bottom <= spritesheet.height
               /\ \A i \in 0..(image.width - 1), j \in 0..(image.height - 1),
                     c \in 0..(PixelBytes - 1) :
                    PixelByte(spritesheet.data, spritesheet.width,
                              region.left + i, region.top + j, c)
                        = PixelByte(image.data, image.width, i, j, c)
               /\ \A p \in SpritePositions :
                    QuadPositions(h - 1, p[1], p[2])
                        = ExtentPositions(p[1], p[2], image.width, image.height)

\* C5 witness: both sprites atlased, the second by a later pass that grew
\* the sheet under the first
AtlasPixelWitness ==
    /\ Len(sprites) = 2
    /\ sprites[1].kind = "Sheet" /\ sprites[2].kind = "Sheet"
    /\ Len(allocations) = 1 /\ allocations[1][1] = 1
    /\ Len(returned) = 2 /\ returned[2].size > returned[2].before
    /\ spritesheet.width = returned[2].size

\* C6: under a fairly scheduled worker and frames that keep being drawn,
\* every created sprite is eventually Atlased: no upload stays in the inbox
\* forever and the rendezvous never blocks for good.
EverySpriteMigrates ==
    \A h \in 0..(MaxSprites - 1) :
        (Len(sprites) > h) ~> (Len(sprites) > h /\ sprites[h + 1].kind = "Sheet")

\* C6 witness: every sprite created and migrated, the inbox drained and the
\* worker parked again
EverySpriteMigratesWitness ==
    /\ Len(sprites) = MaxSprites
    /\ \A h \in 1..Len(sprites) : sprites[h].kind = "Sheet"
    /\ inbox = <<>>
    /\ wpc = "park"

----------------------------------------------------------------------------
(* Properties of the frame *)

RECURSIVE ExpectedQuads(_)
\* the quads of the rectangle and sprite draws of the calls, in call order,
\* counted from the last clear
ExpectedQuads(tr) ==
    IF tr = <<>> THEN <<>>
    ELSE CASE Last(tr).op = "clear" -> <<>>
           [] Last(tr).op = "rectangle" ->
                Append(ExpectedQuads(Front(tr)),
                       [kind |-> "RectangleBatch",
                        quad |-> RectangleBatchNew(Last(tr)).vertices])
           [] Last(tr).op = "sprite" ->
                Append(ExpectedQuads(Front(tr)),
                       [kind |-> "SpriteBatch",
                        quad |-> SpriteBatchNew(Last(tr)).vertices])
           [] OTHER -> ExpectedQuads(Front(tr))

\* the quads of one batch, in vertex order
BatchQuads(batch) ==
    [q \in 1..(Len(batch.vertices) \div 4) |->
        [kind |-> batch.kind,
         quad |-> SubSeq(batch.vertices, 4 * (q - 1) + 1, 4 * q)]]

RECURSIVE RecordedQuads(_)
\* the quads of the commands, in list order
RecordedQuads(commands) ==
    IF commands = <<>> THEN <<>>
    ELSE RecordedQuads(Front(commands)) \o BatchQuads(Last(commands))

\* the indices of a batch draw its quads one after the other
IndicesInVertexOrder(batch) ==
    /\ Len(batch.vertices) % 4 = 0
    /\ Len(batch.indices) = 6 * (Len(batch.vertices) \div 4)
    /\ \A q \in 1..(Len(batch.vertices) \div 4) :
        SubSeq(batch.indices, 6 * (q - 1) + 1, 6 * q) = QuadIndices(4 * (q - 1))

DrawOrderIsCallOrder ==
    /\ RecordedQuads(render_list.commands) = ExpectedQuads(trace)
    /\ \A i \in 1..Len(render_list.commands) :
        IndicesInVertexOrder(render_list.commands[i])

\* the end of a frame renders nothing (the frame is skipped) or one indexed
\* draw per command, in list order
RenderStepOk ==
    (phase = "draw" /\ phase' = "idle") =>
        \/ UNCHANGED <<vertex_offset, index_offset, drawcalls>>
        \/ /\ Len(drawcalls') = Len(render_list.commands)
           /\ \A i \in 1..Len(drawcalls') :
                /\ drawcalls'[i].vertices = render_list.commands[i].vertices
                /\ drawcalls'[i].index_count = Len(render_list.commands[i].indices)
                /\ drawcalls'[i].pipeline =
                    (IF render_list.commands[i].kind = "RectangleBatch"
                     THEN "rectangle" ELSE "sprite")
                /\ i > 1 => /\ drawcalls'[i].vertex_start >= drawcalls'[i - 1].vertex_end
                            /\ drawcalls'[i].index_start >= drawcalls'[i - 1].index_end

\* C7: the commands read in order, and in each batch the quads in vertex
\* order, are the rectangle and sprite draws called since the last frame
\* reset or clear, in call order; render issues one indexed draw per
\* command, in list order.
DrawOrderEqualsCallOrder == []DrawOrderIsCallOrder /\ [][RenderStepOk]_vars

\* C7 witness: two different rectangles then a sprite, rendered as two
\* draws: the rectangle batch, then the sprite batch
DrawOrderWitness ==
    /\ phase = "idle"
    /\ Len(trace) = 3
    /\ trace[1].op = "rectangle" /\ trace[2].op = "rectangle" /\ trace[3].op = "sprite"
    /\ trace[1] # trace[2]
    /\ Len(drawcalls) = 2
    /\ drawcalls[1].pipeline = "rectangle" /\ drawcalls[2].pipeline = "sprite"

\* C8: after set_color(c); clear(); rectangle(...), whatever was recorded
\* before, the render list holds exactly one command, the RectangleBatch of
\* that rectangle, and its clear color is c, the draw color at the clear.
ClearRecordsDrawColor ==
    LET n == Len(trace)
    IN (/\ n >= 3
        /\ trace[n - 2].op = "set_color"
        /\ trace[n - 1].op = "clear"
        /\ trace[n].op = "rectangle")
       => /\ Len(render_list.commands) = 1
          /\ render_list.commands[1] = RectangleBatchNew(trace[n])
          /\ Len(render_list.commands[1].vertices) = 4
          /\ render_list.clear_color = trace[n - 2].color

\* C8 witness: a draw recorded, then set_color(c); clear(); rectangle
ClearRecordsDrawColorWitness ==
    /\ Len(trace) = 4
    /\ trace[1].op \in {"rectangle", "sprite"}
    /\ trace[2].op = "set_color" /\ trace[3].op = "clear" /\ trace[4].op = "rectangle"
    /\ Len(render_list.commands) = 1
    /\ render_list.clear_color = trace[2].color
    /\ render_list.clear_color # ColorDefault

\* this step is the context::reset that begins a frame
ContextResetStep == phase = "poll" /\ phase' = "draw"

ContextResetStepOk ==
    ContextResetStep =>
        /\ vertex_offset' = 0
        /\ index_offset' = 0
        /\ render_list'.commands = <<>>
        /\ render_list'.clear_color = Color(0, 0, 0, 1)
        /\ draw_state'.color = Color(0, 0, 0, 1)
        /\ draw_state'.transform = identity

\* nothing of an earlier frame or callback is in the context when the draw
\* callbacks begin
FreshAtFrameStart ==
    (phase = "draw" /\ trace = <<>>) =>
        /\ vertex_offset = 0 /\ index_offset = 0
        /\ render_list = [clear_color |-> Color(0, 0, 0, 1), commands |-> <<>>]
        /\ draw_state = [color |-> Color(0, 0, 0, 1), transform |-> identity]

\* C9: after context::reset, from any prior state, both ring-buffer offsets
\* are zero, the render list has no commands and the default clear color
\* (0,0,0,1), and the draw state is the default (color (0,0,0,1), transform
\* identity).
ContextResetRestoresDefaults == [][ContextResetStepOk]_vars /\ []FreshAtFrameStart

\* C9 witness: the reset has run on a context whose commands, clear color,
\* draw color, transform and offsets were all used
ContextResetWitness ==
    /\ phase = "draw"
    /\ stale
    /\ trace = <<>>

ClearStepOk ==
    CallStep("clear") =>
        UNCHANGED <<draw_state, vertex_offset, index_offset, sprites, spritesheet>>

PublicResetStepOk ==
    CallStep("reset") =>
        /\ UNCHANGED <<render_list, vertex_offset, index_offset, sprites, spritesheet>>
        /\ draw_state'.color = Color(0, 0, 0, 1)
        /\ draw_state'.transform = identity

\* C10: clear() leaves the draw state unchanged; the public reset() leaves
\* the render list (commands and clear color) unchanged and sets the color
\* to (0,0,0,1) and the transform to identity; neither changes the
\* ring-buffer offsets or the sprite registry.
ResetsFrameConditions == [][ClearStepOk /\ PublicResetStepOk]_vars

\* C10 witness: after a rendered frame, set_color; clear; rectangle; reset:
\* the command and the clear color are still there, the draw state is the
\* default, the offsets and the registry are as the frame left them
ResetsFrameWitness ==
    /\ Len(trace) = 4
    /\ trace[1].op = "set_color" /\ trace[2].op = "clear"
    /\ trace[3].op = "rectangle" /\ trace[4].op = "reset"
    /\ Len(render_list.commands) = 1
    /\ render_list.clear_color # ColorDefault
    /\ draw_state = DrawStateDefault
    /\ vertex_offset > 0
    /\ sprites # <<>>

----------------------------------------------------------------------------
(* Properties of atlased draws *)

RECURSIVE TrailingSprites(_)
\* the handles of the sprite draws at the end of the trace, in call order,
\* with no rectangle draw or clear among them
TrailingSprites(tr) ==
    IF tr = <<>> THEN <<>>
    ELSE CASE Last(tr).op = "sprite" ->
                Append(TrailingSprites(Front(tr)), Last(tr).handle)
           [] Last(tr).op \in {"rectangle", "clear"} -> <<>>
           [] OTHER -> TrailingSprites(Front(tr))

\* C11: a run of consecutive sprite draws, of the same or of different
\* handles, all of them Atlased, is recorded as exactly one SpriteBatch: the
\* last command, holding one quad per draw and bound to the foreground's
\* current sheet; no SpriteBatch precedes it.
AtlasedRunOneBatch ==
    LET run == TrailingSprites(trace)
        commands == render_list.commands
    IN (/\ run # <<>>
        /\ \A i \in 1..Len(run) : sprites[run[i] + 1].kind = "Sheet")
       => /\ commands # <<>>
          /\ Last(commands).kind = "SpriteBatch"
          /\ Last(commands).texture = spritesheet
          /\ Len(Last(commands).vertices) = 4 * Len(run)
          /\ Len(Last(commands).indices) = 6 * Len(run)
          /\ Len(commands) > 1 =>
                commands[Len(commands) - 1].kind = "RectangleBatch"

\* C11 witness: A and B both migrated, then A, A, B drawn: one batch of
\* three quads bound to the sheet
AtlasedRunWitness ==
    /\ DrewAAB(0, 1)
    /\ sprites[1].kind = "Sheet" /\ sprites[2].kind = "Sheet"
    /\ Len(render_list.commands) = 1
    /\ Len(render_list.commands[1].vertices) = 12
    /\ render_list.commands[1].texture.id = spritesheet.id

----------------------------------------------------------------------------
(* Properties of the packer: fit and growth *)

\* C12: every rectangle (l, t, r, b) that alloc(w, h) returns has
\* r - l = w and b - t = h, and right after the call
\* max(w, h) <= next_power_of_two(max(w, h)) <= root size.
AtlasFit ==
    \A i \in 1..Len(returned) :
        ~returned[i].panicked =>
            LET a == returned[i]
            IN /\ a.region.right - a.region.left = a.width
               /\ a.region.bottom - a.region.top = a.height
               /\ Max(a.width, a.height) <= next_power_of_two(Max(a.width, a.height))
               /\ next_power_of_two(Max(a.width, a.height)) <= a.size

\* C12 witness: a 3x1 sprite placed away from the origin in a root that
\* grew for it, after two other allocations
AtlasFitWitness ==
    /\ Len(returned) = 3
    /\ ~returned[3].panicked
    /\ returned[3].width = 3 /\ returned[3].height = 1
    /\ returned[3].region.left > 0
    /\ returned[3].size > returned[3].before

RECURSIVE IsPowerOfTwo(_)
\* n is a power of two, 1 included
IsPowerOfTwo(n) == n = 1 \/ (n > 1 /\ n % 2 = 0 /\ IsPowerOfTwo(n \div 2))

\* the root sizes that the allocations saw and left form one chain
SizesChained ==
    \A i \in 1..Len(returned) :
        /\ returned[i].size >= returned[i].before
        /\ i > 1 => returned[i].before = returned[i - 1].size
        /\ i = Len(returned) => returned[i].size = NodeSize(layout)

\* C13: across any sequence of alloc calls the root size never decreases,
\* and after every alloc it is a power of two (>= 1).
AtlasGrowthMonotone ==
    /\ [][NodeSize(layout') >= NodeSize(layout)]_vars
    /\ [](SizesChained /\ \A i \in 1..Len(returned) :
                ~returned[i].panicked => IsPowerOfTwo(returned[i].size))

\* C13 witness: the root grew twice and then stayed for a sprite that fit
AtlasGrowthWitness ==
    /\ Len(returned) = 4
    /\ returned[1].size < returned[2].size
    /\ returned[2].size < returned[3].size
    /\ returned[4].size = returned[3].size
    /\ \A i \in 1..4 : ~returned[i].panicked

----------------------------------------------------------------------------
(* Properties of the foreground *)

\* C14: the foreground never waits for the assembler: whatever the worker
\* does (parked, in a pass, or blocked sending its feedback), create_sprite
\* completes, and poll (in the reset that begins a frame) completes, with
\* or without a feedback to receive.
ForegroundNeverBlocks ==
    /\ (Len(sprites) < limits.sprites /\ phase # "poll") => ENABLED ApiCreateSprite
    /\ phase = "idle" => ENABLED PollUnpark
    /\ phase = "poll" => ENABLED FrameReset

\* C14 witness: the worker is blocked sending its feedback while the
\* foreground is between frames with a sprite still to create
ForegroundNeverBlocksWitness ==
    /\ wpc = "send"
    /\ outbox.offered
    /\ phase = "idle"
    /\ Len(sprites) < limits.sprites

----------------------------------------------------------------------------
(* Callbacks and the event loop *)

\* the number of times cb occurs in the callback log
RECURSIVE Count(_, _)
Count(calls, cb) ==
    IF calls = <<>> THEN 0
    ELSE Count(Front(calls), cb) + (IF Last(calls) = cb THEN 1 ELSE 0)

\* C15: the load callbacks are called at most once per run, and no update
\* or draw callback is called before them, in whatever order the event loop
\* delivers resumed, about_to_wait and RedrawRequested, also when the
\* window/GPU initialisation fails
LoadOnceBeforeCallbacks ==
    /\ Count(app.calls, "load") <= 1
    /\ \A i \in 1..Len(app.calls) :
           app.calls[i] \in {"update", "draw"}
               => \E j \in 1..(i - 1) : app.calls[j] = "load"

\* C16: a create_sprite call made before the event loop starts, like one
\* made during it, returns a handle and registers the sprite: no call
\* fails
CreateSpriteNeverFails == ~app.panicked

----------------------------------------------------------------------------
(* A frame without a surface texture *)

\* the end of a frame whose get_current_texture() failed
SkipStep == phase = "draw" /\ phase' = "idle" /\ skipped'

\* the skipped frame issues no draw and writes nothing to the ring buffers
SkipStepOk ==
    SkipStep => /\ drawcalls' = <<>>
                /\ vertex_offset' = vertex_offset
                /\ index_offset' = index_offset
                /\ render_list' = render_list

\* the frame after a skipped one starts from a fresh reset
AfterSkipResetOk ==
    (phase = "poll" /\ skipped /\ phase' = "draw") =>
        /\ vertex_offset' = 0 /\ index_offset' = 0
        /\ render_list' = [clear_color |-> Color(0, 0, 0, 1), commands |-> <<>>]
        /\ draw_state' = [color |-> Color(0, 0, 0, 1), transform |-> identity]

\* the frame after a skipped one holds the draws of its own calls only,
\* and renders them from offset 0
AfterSkipOwnDraws ==
    (skipped /\ phase = "draw") =>
        /\ vertex_offset = 0 /\ index_offset = 0
        /\ RecordedQuads(render_list.commands) = ExpectedQuads(trace)
        /\ Render.calls # <<>> => /\ Render.calls[1].vertex_start = 0
                                  /\ Render.calls[1].index_start = 0

\* C17: when the surface texture is unavailable the frame is skipped
\* silently: render and present are not called and nothing is written to
\* the ring buffers; the next frame proceeds from a fresh reset and holds
\* only its own draws
SkippedFrameSilent ==
    /\ [][SkipStepOk /\ AfterSkipResetOk]_vars
    /\ [](AfterSkipOwnDraws)

\* a frame that recorded draws was skipped, and the next frame recorded a
\* draw of its own
SkippedFrameWitness ==
    /\ skipped /\ phase = "draw"
    /\ Len(trace) = 1 /\ trace[1].op = "rectangle"
    /\ Len(render_list.commands) = 1
    /\ Len(render_list.commands[1].vertices) = 4

----------------------------------------------------------------------------
(* Handles *)

\* the k-th create_sprite call returned k - 1, and no two calls returned
\* the same handle
HandlesAreCallIndices ==
    /\ Len(images) = Len(sprites)
    /\ \A k \in 1..Len(images) : images[k].handle = k - 1
    /\ \A i, j \in 1..Len(images) :
           i # j => images[i].handle # images[j].handle

\* a create_sprite call returns the registry length it found and adds one
\* entry; no step shortens the registry
RegistryGrowsByCreate ==
    /\ Len(sprites') >= Len(sprites)
    /\ Len(images') = Len(images) + 1 =>
           /\ Last(images').handle = Len(sprites)
           /\ Len(sprites') = Len(sprites) + 1

\* C18: handles are dense: the k-th create_sprite call returns k - 1, the
\* registry length before the call; the registry length never decreases;
\* no two calls return the same handle
HandlesDense == [][RegistryGrowsByCreate]_vars /\ [](HandlesAreCallIndices)

\* two sprites were created, the first already migrated to the sheet
HandlesDenseWitness ==
    /\ Len(images) = 2
    /\ images[2].handle = 1
    /\ sprites[1].kind = "Sheet"

----------------------------------------------------------------------------
(* Transforms *)

\* the points the compositions are applied to
Points == {<<0, 0>>, <<1, 2>>, <<-1, 1>>, <<2, -1>>}

\* apply on a point given as a pair
applyTo(t, p) == apply(t, p[1], p[2])

\* a translate or scale step turns t into a transform that applies the
\* operation after t
MutatorStepOk ==
    (Len(trace') = Len(trace) + 1) =>
        LET call == Last(trace')
            t == draw_state.transform
            new == draw_state'.transform
        IN /\ call.op = "translate" =>
                \A p \in Points :
                    applyTo(new, p) = applyTo(translation(call.x, call.y), applyTo(t, p))
           /\ call.op = "scale" =>
                \A p \in Points :
                    applyTo(new, p) = applyTo(scaling(call.x, call.y), applyTo(t, p))

\* origin(); translate(a, b); scale(c, d); rectangle(x, y, w, h) records the
\* corners (c * (x + a), d * (y + b)) ...
OriginTranslateScale ==
    LET n == Len(trace)
    IN (/\ n >= 4
        /\ trace[n - 3].op = "origin"
        /\ trace[n - 2].op = "translate"
        /\ trace[n - 1].op = "scale"
        /\ trace[n].op = "rectangle") =>
           LET a == trace[n - 2].x
               b == trace[n - 2].y
               c == trace[n - 1].x
               d == trace[n - 1].y
               r == trace[n]
               quad == Last(RecordedQuads(render_list.commands)).quad
           IN [k \in 1..4 |-> quad[k].position] =
                <<<<c * (r.x + a), d * (r.y + b)>>,
                  <<c * (r.x + r.width + a), d * (r.y + b)>>,
                  <<c * (r.x + a), d * (r.y + r.height + b)>>,
                  <<c * (r.x + r.width + a), d * (r.y + r.height + b)>>>>

\* C19: the transform mutators pre-multiply: t.translate(a, b) applied to a
\* point equals translation(a, b) applied to t's image of it, likewise
\* t.scale(a, b); so origin(); translate(a, b); scale(c, d) maps a rectangle
\* corner (x, y) to (c * (x + a), d * (y + b))
MutatorsPreMultiply == [][MutatorStepOk]_vars /\ [](OriginTranslateScale)

\* a translate was applied to a scaled coordinate system, and the sequence
\* origin, translate, scale, rectangle was recorded
MutatorsWitness ==
    /\ Len(trace) = 4
    /\ trace[1].op = "origin" /\ trace[2].op = "translate"
    /\ trace[3].op = "scale" /\ trace[4].op = "rectangle"
    /\ draw_state.transform = combine(scaling(2, 3), translation(-1, 2))
    /\ render_list.commands[1].vertices[1].position = <<-2, 6>>

\* the transforms combine is checked on: the operations of the
\* specification and a shear
Operations ==
    {translation(t[1], t[2]) : t \in TransformOffsets}
        \cup {scaling(f[1], f[2]) : f \in TransformFactors}
        \cup {shearing(1, 2)}

\* C20: for all x, y, a, b: translation(a, b).apply(x, y) = [x + a, y + b],
\* scaling(a, b).apply(x, y) = [a * x, b * y], identity().apply(x, y) =
\* [x, y]; and (p.combine(q)).combine(r) maps every point where
\* p.combine(q.combine(r)) maps it
TransformAlgebra ==
    /\ \A a, b, x, y \in Coords :
           /\ apply(translation(a, b), x, y) = <<x + a, y + b>>
           /\ apply(scaling(a, b), x, y) = <<a * x, b * y>>
           /\ apply(identity, x, y) = <<x, y>>
    /\ \A q, r \in Operations : \A pt \in Points :
           LET p == draw_state.transform
           IN applyTo(combine(combine(p, q), r), pt)
                = applyTo(combine(p, combine(q, r)), pt)

\* the coordinate system is a composition of a scale and two translations,
\* and a rectangle was drawn through it
TransformAlgebraWitness ==
    /\ Len(trace) = 4
    /\ trace[1].op = "translate" /\ trace[2].op = "scale"
    /\ trace[3].op = "translate" /\ trace[4].op = "rectangle"
    /\ draw_state.transform.x.x = 2 /\ draw_state.transform.x.z # 0
    /\ render_list.commands # <<>>

----------------------------------------------------------------------------
(* Images *)

\* C21: Image::from_data(data, width, height) panics whenever data.len()
\* differs from width * height * 4 and creates no image; when the length
\* matches it returns an image with exactly that data, width and height
FromDataChecksLength ==
    \A i \in 1..Len(made) :
        LET call == made[i]
        IN IF Len(call.data) # call.width * call.height * 4
           THEN call.result = [outcome |-> "panic"]
           ELSE call.result =
                    [outcome |-> "image",
                     image |-> [data |-> call.data, width |-> call.width,
                                height |-> call.height]]

----------------------------------------------------------------------------
(* poll *)

\* the first half of poll: the unpark happens exactly when the inbox is not
\* empty, and nothing of the registry, the sheet or the outbox changes
PollUnparkStepOk ==
    (phase = "idle" /\ phase' = "poll") =>
        /\ inbox # <<>> => token'
        /\ inbox = <<>> => token' = token
        /\ UNCHANGED <<sprites, spritesheet, outbox, inbox>>

\* the second half of poll: a waiting feedback is taken and applied whole,
\* regions and sheet together; without one nothing changes
PollRecvStepOk ==
    (phase = "poll" /\ phase' = "draw") =>
        IF outbox.offered
        THEN /\ ~outbox'.offered
             /\ Len(sprites') = Len(sprites)
             /\ \A i \in 1..Len(outbox.updated_sprites) :
                    sprites'[outbox.updated_sprites[i][1] + 1] =
                        [kind |-> "Sheet", region |-> outbox.updated_sprites[i][2]]
             /\ \A h \in 1..Len(sprites) :
                    (\A i \in 1..Len(outbox.updated_sprites) :
                        outbox.updated_sprites[i][1] + 1 # h)
                        => sprites'[h] = sprites[h]
             /\ spritesheet' = outbox.new_sheet
        ELSE UNCHANGED <<sprites, spritesheet, outbox>>

\* the sheet reference and the existing registry entries change in no
\* other step, so no draw call sees one changed without the other
OnlyPollApplies ==
    (\/ spritesheet' # spritesheet
     \/ \E h \in 1..Len(sprites) : sprites'[h] # sprites[h])
        => (phase = "poll" /\ phase' = "draw" /\ outbox.offered)

\* C22: each poll unparks the assembler if and only if the inbox is
\* non-empty at that moment and applies at most one feedback message; when
\* it applies one, every (handle, region) of it overwrites the registry
\* entry with Atlased{region} and the sheet reference becomes the message's
\* sheet, within the same poll; with no feedback waiting, registry and
\* sheet are unchanged
PollAppliesOneFeedback ==
    [][PollUnparkStepOk /\ PollRecvStepOk /\ OnlyPollApplies]_vars

\* a poll has just applied the feedback of the first pass, which placed
\* two sprites
PollAppliesWitness ==
    /\ phase = "draw" /\ trace = <<>>
    /\ Len(sprites) = 2
    /\ sprites[1].kind = "Sheet" /\ sprites[2].kind = "Sheet"
    /\ spritesheet.id = <<"sheet", 1>>
    /\ ~outbox.offered

----------------------------------------------------------------------------
(* Unparks and rebuild passes *)

\* the worker is parked with no unpark pending
Quiescent == wpc = "park" /\ ~token

\* C23 as stated: each unpark issued by poll causes exactly one rebuild
\* pass, so that once the worker is parked again with no unpark pending the
\* number of passes equals the number of unparks, and every pass allocates
\* at least one upload
UnparkPassOneToOne ==
    /\ Quiescent => passes = unparks
    /\ outbox.offered => outbox.updated_sprites # <<>>

\* the passes begun: those built and the one being drained
PassesBegun == passes + (IF wpc = "drain" THEN 1 ELSE 0)

\* every pass consumed the token of an unpark, and an unpark is pending
\* only if its token is still there
PassesWithinUnparks ==
    /\ PassesBegun + (IF token THEN 1 ELSE 0) <= unparks
    /\ (Quiescent /\ unparks > 0) => passes >= 1

\* the handles of a sequence of uploads or allocations
HandlesOf(seq) == {seq[i][1] : i \in 1..Len(seq)}

\* every upload is in exactly one place: queued in the inbox, allocated by
\* the pass being drained, in the feedback offered, or applied
UploadsAccounted ==
    \A h \in 0..(Len(sprites) - 1) :
        Cardinality({place \in {"inbox", "pass", "outbox", "applied"} :
            \/ place = "inbox" /\ \E i \in 1..Len(inbox) : inbox[i].handle = h
            \/ place = "pass" /\ wpc = "drain" /\ h \in HandlesOf(allocations)
            \/ place = "outbox" /\ outbox.offered
                    /\ h \in HandlesOf(outbox.updated_sprites)
            \/ place = "applied" /\ sprites[h + 1].kind = "Sheet"}) = 1

\* a pass ends its drain only on an empty inbox and reports every
\* allocation it made
PassDrainsInbox ==
    (wpc = "drain" /\ wpc' = "send") =>
        /\ inbox = <<>>
        /\ outbox'.updated_sprites = allocations

\* C23 amended: unparks set a binary token, so a pass consumes one token,
\* the passes begun never exceed the unparks, and an unpark issued while a
\* token is pending is absorbed; every pass drains every upload queued when
\* it runs, and no upload is dropped or allocated twice
PassesFollowUnparks ==
    /\ [](PassesWithinUnparks /\ UploadsAccounted)
    /\ [][PassDrainsInbox]_vars

\* two unparks were absorbed into one pass that drained two uploads
PassesFollowUnparksWitness ==
    /\ Quiescent
    /\ unparks = 2 /\ passes = 1
    /\ Len(sprites) = 2
    /\ sprites[1].kind = "Sheet" /\ sprites[2].kind = "Sheet"

----------------------------------------------------------------------------
(* Feedback *)

\* the number of the pass that built a sheet texture
PassOf(texture) == texture.id[2]

\* a feedback is outstanding exactly while the worker is blocked in send,
\* it is the feedback of the last pass, and the foreground holds the sheet
\* of the pass before it
OneFeedbackOutstanding ==
    /\ outbox.offered <=> wpc = "send"
    /\ outbox.offered =>
           /\ PassOf(outbox.new_sheet) = passes
           /\ PassOf(spritesheet) = passes - 1
    /\ ~outbox.offered => PassOf(spritesheet) = passes

\* a pass begins only when the feedback of every earlier pass was received
PassBeginsAfterReceive ==
    (wpc = "park" /\ wpc' = "drain") =>
        /\ ~outbox.offered
        /\ PassOf(spritesheet) = passes

\* poll receives the feedback of the pass that follows the one it holds
FeedbackInPassOrder ==
    spritesheet' # spritesheet =>
        /\ PassOf(spritesheet') = PassOf(spritesheet) + 1
        /\ spritesheet' = outbox.new_sheet

\* C24: feedback is never lost, duplicated or reordered: the worker does
\* not begin pass k + 1 before the foreground has received the feedback of
\* pass k, so at most one feedback is outstanding at any time and poll
\* applies the feedbacks in the order of the passes
FeedbackInOrder ==
    /\ []OneFeedbackOutstanding
    /\ [][PassBeginsAfterReceive /\ FeedbackInPassOrder]_vars

\* the feedback of the second pass is outstanding, the first one applied
FeedbackInOrderWitness ==
    /\ wpc = "send" /\ outbox.offered
    /\ passes = 2
    /\ spritesheet.id = <<"sheet", 1>>
    /\ sprites[1].kind = "Sheet"

----------------------------------------------------------------------------
(* Registry and sheet *)

\* a normalised texture coordinate n / d lies in [0, 1]
InUnitRange(q) == q[2] > 0 /\ 0 <= q[1] /\ q[1] <= q[2]

\* every Atlased entry lies inside the foreground's sheet, and that sheet
\* comes from the pass that placed the sprite or from a later one
AtlasedInsideSheet ==
    phase # "poll" =>
        \A h \in 1..Len(sprites) :
            sprites[h].kind = "Sheet" =>
                /\ sprites[h].region.left >= 0 /\ sprites[h].region.top >= 0
                /\ sprites[h].region.right <= spritesheet.width
                /\ sprites[h].region.bottom <= spritesheet.height
                /\ PassOf(spritesheet) >= returned[h].pass
                /\ sprites[h].region = returned[h].region

\* every recorded SpriteBatch of the sheet binds the foreground's current
\* sheet, and all texture coordinates recorded lie in [0, 1]
BatchesBindCurrentSheet ==
    \A i \in 1..Len(render_list.commands) :
        LET batch == render_list.commands[i]
        IN batch.kind = "SpriteBatch" =>
            /\ batch.texture.id[1] = "sheet" => batch.texture = spritesheet
            /\ \A k \in 1..Len(batch.vertices) :
                   /\ InUnitRange(batch.vertices[k].tex_coords[1])
                   /\ InUnitRange(batch.vertices[k].tex_coords[2])

\* the quad recorded for an atlased sprite carries its region divided by
\* the size of the sheet its batch binds
AtlasedQuadUsesBoundSheet ==
    (Len(render_list.commands') = Len(render_list.commands) + 1
        /\ Len(trace') = Len(trace) + 1 /\ Last(trace').op = "sprite"
        /\ sprites[Last(trace').handle + 1].kind = "Sheet") =>
        LET batch == Last(render_list.commands')
            region == sprites[Last(trace').handle + 1].region
        IN /\ batch.texture = spritesheet
           /\ batch.vertices[1].tex_coords =
                <<Quot(region.left, batch.texture.width),
                  Quot(region.top, batch.texture.height)>>
           /\ batch.vertices[4].tex_coords =
                <<Quot(region.right, batch.texture.width),
                  Quot(region.bottom, batch.texture.height)>>

\* C25: whenever a draw call can run, every Atlased{region} entry lies
\* inside the foreground's current sheet texture, which was built by the
\* pass that placed the sprite or by a later one; registry and sheet change
\* only in poll at frame start, so every SpriteBatch recorded for an
\* atlased sprite binds the sheet whose size gave its texture coordinates
RegistrySheetConsistent ==
    /\ [](AtlasedInsideSheet /\ BatchesBindCurrentSheet)
    /\ [][AtlasedQuadUsesBoundSheet]_vars

\* a sprite placed by the first pass is drawn from the sheet of the second
RegistrySheetWitness ==
    /\ phase = "draw"
    /\ Len(sprites) = 2
    /\ sprites[1].kind = "Sheet" /\ returned[1].pass = 1
    /\ PassOf(spritesheet) = 2
    /\ Len(trace) = 1 /\ trace[1].op = "sprite" /\ trace[1].handle = 0
    /\ render_list.commands[1].texture = spritesheet

----------------------------------------------------------------------------
(* Properties of the packer: the impossible branches *)

RECURSIVE QuadrantsHalved(_, _, _)
\* the node covers the square at (x, y): its size is a power of two, an
\* Empty node records that origin, and a Subdivided node has four children
\* of half its size covering its four quadrants
QuadrantsHalved(node, x, y) ==
    /\ IsPowerOfTwo(node.size)
    /\ node.kind = "Empty" => node.x = x /\ node.y = y
    /\ node.kind = "Subdivided" =>
          LET half == node.size \div 2
          IN /\ half * 2 = node.size
             /\ \A k \in 1..Len(ChildNames) : node[ChildNames[k]].size = half
             /\ QuadrantsHalved(node.top_left, x, y)
             /\ QuadrantsHalved(node.top_right, x + half, y)
             /\ QuadrantsHalved(node.bottom_left, x, y + half)
             /\ QuadrantsHalved(node.bottom_right, x + half, y + half)

\* C26: for every sequence of alloc(w, h) calls on a fresh packer no
\* unreachable!() or panic!() of alloc, try_alloc, empty_alloc or realloc
\* is executed: a child's try_alloc under a Subdivided node returns Ok or
\* Occupied only, and empty_alloc and realloc are called only on Empty
\* nodes at least as large as the request.
PackerNeverPanics ==
    /\ \A i \in 1..Len(returned) : ~returned[i].panicked
    /\ NodeSize(layout) > 0 => QuadrantsHalved(layout, 0, 0)

\* C26 witness: after a first Leaf the root grew both ways, around a tree
\* too small for the request and around a full tree, and a later request
\* was served inside the subdivided tree
PackerNeverPanicsWitness ==
    /\ Len(returned) >= 4
    /\ \A i \in 1..Len(returned) : ~returned[i].panicked
    /\ \E i \in 1..Len(returned) :
          /\ returned[i].before > 0
          /\ returned[i].size > 2 * returned[i].before
    /\ \E i \in 1..Len(returned) :
          /\ returned[i].before > 0
          /\ returned[i].size = 2 * returned[i].before
          /\ next_power_of_two(Max(returned[i].width, returned[i].height))
                <= returned[i].before
    /\ \E i \in 1..Len(returned) :
          /\ returned[i].before > 1
          /\ returned[i].size = returned[i].before

----------------------------------------------------------------------------
(* Properties of the packer: the y of realloc's top-left child *)

\* this step is an alloc call; its record is the last of returned'
AllocStep == Len(returned') = Len(returned) + 1

\* the call of this step grew the root around a tree too small for it
UndersizedStep ==
    /\ AllocStep
    /\ NodeSize(layout) > 0
    /\ next_power_of_two(Max(Last(returned').width, Last(returned').height))
          > NodeSize(layout)

\* every realloc invocation of this step is on an Empty node at (0, 0)
ReallocAtOrigin ==
    UndersizedStep =>
        LET s == next_power_of_two(Max(Last(returned').width, Last(returned').height))
        IN \A n \in ReallocNodes(NodeSubdivided(s * 2).top_left, layout) :
              n.kind = "Empty" /\ n.x = 0 /\ n.y = 0

\* the call of this step leaves the tree and returns the region that the
\* reference packer leaves and returns on the same tree
SameAsReference ==
    AllocStep =>
        LET a == Last(returned')
            ref == allocReference(layout, a.width, a.height)
        IN /\ layout' = ref.node
           /\ a.region = ref.region
           /\ a.panicked = ref.panicked

\* C27: the y: *x assignment in realloc never changes a result: over every
\* sequence of alloc calls the tree (the positions of all Empty nodes
\* included) and the regions returned are those of a reference packer that
\* sets the top-left child's y to *y, because realloc is only ever invoked
\* on Empty nodes whose x and y are both 0.
ReallocYInert == [][SameAsReference /\ ReallocAtOrigin]_vars

\* C27 witness: a 4x4 request re-embedded a tree of size 1, so realloc
\* descended twice, and a later request took an Empty node it created
ReallocYInertWitness ==
    /\ Len(returned) >= 3
    /\ \A i \in 1..Len(returned) : ~returned[i].panicked
    /\ \E i \in 2..Len(returned) :
          /\ returned[i].before > 0
          /\ returned[i].size >= 8 * returned[i].before
          /\ \E j \in (i + 1)..Len(returned) :
                /\ returned[j].size = returned[i].size
                /\ returned[j].region.right <= returned[i].size \div 2
                /\ returned[j].region.bottom <= returned[i].size \div 2

----------------------------------------------------------------------------
(* Properties of the packer: growing the root *)

RECURSIVE HasFreeSquare(_, _)
\* the tree holds an Empty node of the given size or larger
HasFreeSquare(node, size) ==
    CASE node.kind = "Empty" -> node.size >= size
      [] node.kind = "Leaf" -> FALSE
      [] node.kind = "Subdivided" ->
            \E k \in 1..Len(ChildNames) : HasFreeSquare(node[ChildNames[k]], size)

\* the normalised size of the request of this step
StepSize == next_power_of_two(Max(Last(returned').width, Last(returned').height))

\* a request that fits the root's size but finds no free square doubles
\* the root around the old tree and lands at (R, 0)
GrowOnOccupiedStep ==
    (/\ AllocStep
     /\ NodeSize(layout) > 0
     /\ StepSize <= NodeSize(layout)
     /\ ~HasFreeSquare(layout, StepSize)) =>
        LET R == NodeSize(layout)
            a == Last(returned')
        IN /\ ~a.panicked
           /\ layout'.kind = "Subdivided"
           /\ NodeSize(layout') = 2 * R
           /\ layout'.top_left = layout
           /\ a.region = TextureRegion(R, 0, R + a.width, a.height)
           /\ ~HasFreeSquare(layout'.top_right, R)
           /\ layout'.bottom_left = EmptyNode(R, 0, R)
           /\ layout'.bottom_right = EmptyNode(R, R, R)

\* the requests, root sizes and origins of the example
GrowExampleSizes == <<16, 16, 16, 16, 32>>

GrowExampleRoots == <<16, 32, 32, 32, 64>>

GrowExampleOrigins == <<<<0, 0>>, <<16, 0>>, <<0, 16>>, <<16, 16>>, <<32, 0>>>>

\* the first i calls were those of the example
ExamplePrefix(i) ==
    /\ i <= Len(returned) /\ i <= Len(GrowExampleSizes)
    /\ \A j \in 1..i : /\ returned[j].width = GrowExampleSizes[j]
                       /\ returned[j].height = GrowExampleSizes[j]

GrowExample ==
    \A i \in 1..Len(GrowExampleSizes) :
        ExamplePrefix(i) =>
            /\ returned[i].size = GrowExampleRoots[i]
            /\ <<returned[i].region.left, returned[i].region.top>>
                  = GrowExampleOrigins[i]

\* C28: when alloc's normalised size s is at most the root size R > 0 and
\* the tree holds no free square of size s, the root becomes a Subdivided
\* node of size 2R with the old tree as its top-left child and the new
\* square at the top-left of the top-right quadrant, origin (R, 0), and
\* the allocation succeeds; for (16,16) four times and then (32,32) the
\* root sizes are 16, 32, 32, 32, 64 and the origins (0,0), (16,0), (0,16),
\* (16,16), (32,0).
GrowOnOccupied == [][GrowOnOccupiedStep]_vars /\ []GrowExample

\* C28 witness: the example ran to its end, the root doubling at the second
\* call and at the fifth
GrowOnOccupiedWitness ==
    /\ ExamplePrefix(5)
    /\ layout.kind = "Subdivided" /\ NodeSize(layout) = 64
    /\ layout.top_left.kind = "Subdivided" /\ NodeSize(layout.top_left) = 32
    /\ layout.top_right = Leaf(32)

RECURSIVE TopLeftAt(_, _)
\* the node of the given size reached by descending into top-left children
TopLeftAt(node, size) ==
    IF node.kind = "Subdivided" /\ node.size > size
    THEN TopLeftAt(node.top_left, size)
    ELSE node

RECURSIVE EmptyNodes(_)
\* the Empty nodes of the tree
EmptyNodes(node) ==
    CASE node.kind = "Empty" -> {node}
      [] node.kind = "Leaf" -> {}
      [] node.kind = "Subdivided" ->
            EmptyNodes(node.top_left) \cup EmptyNodes(node.top_right)
                \cup EmptyNodes(node.bottom_left) \cup EmptyNodes(node.bottom_right)

\* a request larger than the root R > 0 makes the root Subdivided of size
\* 2s, lands at (s, 0) and re-embeds the old tree at the origin
GrowOnUndersizedStep ==
    UndersizedStep =>
        LET a == Last(returned')
        IN /\ ~a.panicked
           /\ layout'.kind = "Subdivided"
           /\ NodeSize(layout') = 2 * StepSize
           /\ a.region = TextureRegion(StepSize, 0, StepSize + a.width, a.height)
           /\ layout'.top_right = Leaf(StepSize)
           /\ layout'.bottom_left = EmptyNode(StepSize, 0, StepSize)
           /\ layout'.bottom_right = EmptyNode(StepSize, StepSize, StepSize)
           /\ TopLeftAt(layout'.top_left, NodeSize(layout)) = layout
           /\ QuadrantsHalved(layout', 0, 0)

\* the first request on a fresh packer makes the root a Leaf of its size
FirstAllocStep ==
    (AllocStep /\ NodeSize(layout) = 0) =>
        /\ layout' = Leaf(StepSize)
        /\ Last(returned').region =
              TextureRegion(0, 0, Last(returned').width, Last(returned').height)

\* a request that some Empty node can hold is served from an Empty node,
\* the root keeping its size
ServedFromFreeStep ==
    (/\ AllocStep
     /\ NodeSize(layout) > 0
     /\ HasFreeSquare(layout, StepSize)) =>
        LET a == Last(returned')
        IN /\ ~a.panicked
           /\ NodeSize(layout') = NodeSize(layout)
           /\ \E e \in EmptyNodes(layout) :
                 /\ e.x <= a.region.left /\ a.region.left + StepSize <= e.x + e.size
                 /\ e.y <= a.region.top /\ a.region.top + StepSize <= e.y + e.size

\* C29: when alloc's normalised size s exceeds the root size R > 0 the
\* root becomes a Subdivided node of size 2s, the new sprite gets origin
\* (s, 0) and the old tree is re-embedded at origin (0, 0), every region
\* returned before staying reserved where it was; later allocations are
\* served from the free space of the old tree and of the new quadrants
\* without overlapping an earlier region. On a fresh packer the first
\* alloc makes the root a Leaf of size s and returns origin (0, 0).
GrowOnUndersized ==
    /\ [][GrowOnUndersizedStep /\ FirstAllocStep /\ ServedFromFreeStep]_vars
    /\ []AtlasDisjointWithinRoot

\* C29 witness: a tree of size 2 with free space was re-embedded for a 4x4
\* request; then a 1x1 request was served inside the old tree and a 2x2
\* request from an Empty quadrant made by the re-embedding
GrowOnUndersizedWitness ==
    /\ Len(returned) = 5
    /\ \A i \in 1..5 : ~returned[i].panicked
    /\ returned[2].size = 2
    /\ returned[3].width = 4 /\ returned[3].size = 8
    /\ returned[3].region = TextureRegion(4, 0, 8, 4)
    /\ returned[4].width = 1 /\ returned[4].region.right <= 2
    /\ returned[4].region.bottom <= 2
    /\ returned[5].width = 2 /\ returned[5].region = TextureRegion(2, 0, 4, 2)
    /\ NodeSize(layout) = 8

----------------------------------------------------------------------------
(* Properties of the assembler: the bounds of the CPU sheet *)

\* the offsets in a sheet of the given size of the bytes of a region
RegionBytes(region, size) ==
    {(y * size + x) * PixelBytes + c :
        x \in region.left..(region.right - 1),
        y \in region.top..(region.bottom - 1),
        c \in 0..(PixelBytes - 1)}

\* the offsets that a set of slices covers
SliceBytes(slices) == UNION {s[1]..(s[2] - 1) : s \in slices}

\* every slice is a range of a buffer of the given length
SlicesInside(slices, len) == \A s \in slices : 0 <= s[1] /\ s[1] <= s[2] /\ s[2] <= len

\* the slices written by the blit of the i-th upload of this pass
BlitSlices(size, i) ==
    CopySlices(size, allocations[i][2].left, allocations[i][2].top, datas[i],
               allocations[i][2].right - allocations[i][2].left)

\* the worker has drained the inbox and is about to grow and blit
AboutToBlit == wpc = "drain" /\ inbox = <<>>

\* the grow copy and every blit of the pass stay in the buffer, and every
\* blit stays in the region of its own upload
BlitsInBounds ==
    AboutToBlit =>
        /\ ~Grow.panicked
        /\ Grow.size = NodeSize(layout)
        /\ Len(Grow.buf) = Grow.size * Grow.size * PixelBytes
        /\ NodeSize(layout) > sheet_size =>
              SlicesInside(CopySlices(NodeSize(layout), 0, 0, sheet, sheet_size),
                           NodeSize(layout) * NodeSize(layout) * PixelBytes)
        /\ Len(datas) = Len(allocations)
        /\ ~Blit(Grow.buf, Grow.size, 1).panicked
        /\ \A i \in 1..Len(allocations) :
              /\ SlicesInside(BlitSlices(Grow.size, i), Len(Grow.buf))
              /\ SliceBytes(BlitSlices(Grow.size, i))
                    \subseteq RegionBytes(allocations[i][2], Grow.size)
              /\ \A j \in 1..Len(returned) :
                    j # allocations[i][1] + 1 =>
                        SliceBytes(BlitSlices(Grow.size, i))
                            \cap RegionBytes(returned[j].region, Grow.size) = {}

\* C30: in every rebuild pass, at the time of blitting, sheet_size equals
\* the packer root size and the sheet buffer has sheet_size * sheet_size * 4
\* bytes; every row written by a blit or by the grow copy lies inside the
\* buffer, and a blit writes only inside the region allocated to its
\* upload, never into the region of another sprite.
SheetBounds ==
    /\ BlitsInBounds
    /\ wpc # "dead"
    /\ Len(sheet) = sheet_size * sheet_size * PixelBytes
    /\ wpc \in {"park", "send"} => sheet_size = NodeSize(layout)

\* C30 witness: a second pass is about to grow a sheet that holds a 2x2
\* sprite and to blit a 2x2 sprite away from the origin
SheetBoundsWitness ==
    /\ AboutToBlit
    /\ passes = 1
    /\ sheet_size = 2 /\ NodeSize(layout) = 4
    /\ Len(allocations) = 1
    /\ allocations[1][2] = TextureRegion(2, 0, 4, 2)
    /\ Len(datas[1]) = 2 * 2 * PixelBytes

----------------------------------------------------------------------------
(* Properties of the assembler: the size of the sheet texture *)

\* C31: thread::park returning only after an unpark, every rebuild pass
\* reaches the creation of its texture with a packer root of size 1 or
\* more: poll unparks only when the inbox is non-empty and only the worker
\* removes uploads, so the first pass drains at least one upload.
SheetNeverEmpty ==
    /\ AboutToBlit => (NodeSize(layout) >= 1 /\ Grow.size >= 1)
    /\ wpc \in {"drain", "send"} => (passes > 0 \/ inbox # <<>> \/ Len(allocations) > 0)
    /\ passes > 0 => sheet_size >= 1
    /\ outbox.offered =>
          (outbox.new_sheet.width >= 1 /\ outbox.new_sheet.height >= 1)

\* C31 witness: a pass begun by a token set during the pass before it found
\* the inbox empty and is about to build its texture from the old root
SheetNeverEmptyWitness ==
    /\ AboutToBlit
    /\ passes >= 1
    /\ Len(allocations) = 0
    /\ NodeSize(layout) >= 1

----------------------------------------------------------------------------
(* Properties of the assembler: the layout and the schedule *)

RECURSIVE PackedFirst(_)
\* the tree of a packer that was given the first n create_sprite calls'
\* (width, height) one after the other
PackedFirst(n) ==
    IF n = 0 THEN NodeEmpty
    ELSE alloc(PackedFirst(n - 1), images[n].width, images[n].height).node

\* the region that such a packer returns for the call that returned handle
RegionByCallOrder(handle) ==
    alloc(PackedFirst(handle), images[handle + 1].width, images[handle + 1].height).region

\* every (handle, region) pair of the sequence carries that region
PairsByCallOrder(pairs) ==
    \A k \in 1..Len(pairs) : pairs[k][2] = RegionByCallOrder(pairs[k][1])

\* C32: the region assigned to each sprite handle depends only on the
\* sequence of (width, height) of the create_sprite calls, not on how the
\* uploads are grouped into rebuild passes: in every run it is the region
\* that one packer returns when given the calls' sizes in call order, so
\* two runs with the same create_sprite sequence assign identical regions.
LayoutIndependentOfSchedule ==
    /\ layout = PackedFirst(Len(returned))
    /\ PairsByCallOrder(allocations)
    /\ outbox.offered => PairsByCallOrder(outbox.updated_sprites)
    /\ \A h \in 1..Len(sprites) :
          sprites[h].kind = "Sheet" => sprites[h].region = RegionByCallOrder(h - 1)

\* C32 witness: two sprites of different sizes were uploaded before the
\* first pass, placed by that one pass, and are both atlased
LayoutIndependentWitness ==
    /\ Len(sprites) = 2
    /\ sprites[1].kind = "Sheet" /\ sprites[2].kind = "Sheet"
    /\ images[1].width < images[2].width
    /\ returned[1].pass = 1 /\ returned[2].pass = 1

----------------------------------------------------------------------------
(* Properties of the recorder: which command a call may change *)

\* seq is the first Len(seq) elements of longer
IsPrefix(seq, longer) ==
    /\ Len(seq) <= Len(longer)
    /\ SubSeq(longer, 1, Len(seq)) = seq

\* the batch after is the batch before with one quad appended: four more
\* vertices, six more indices, what it held and the texture it binds kept
OneQuadAppended(before, after) ==
    /\ after.kind = before.kind
    /\ IsPrefix(before.vertices, after.vertices)
    /\ Len(after.vertices) = Len(before.vertices) + 4
    /\ IsPrefix(before.indices, after.indices)
    /\ Len(after.indices) = Len(before.indices) + 6
    /\ before.kind = "SpriteBatch" => after.texture = before.texture

\* a draw call extends the last command by a quad or pushes a command of
\* one quad, and leaves the commands before the last as they are
DrawTouchesLastOnly ==
    (CallStep("rectangle") \/ CallStep("sprite")) =>
        LET before == render_list.commands
            after == render_list'.commands
        IN \/ /\ before # <<>>
              /\ Len(after) = Len(before)
              /\ Front(after) = Front(before)
              /\ OneQuadAppended(Last(before), Last(after))
           \/ /\ Len(after) = Len(before) + 1
              /\ Front(after) = before
              /\ Len(Last(after).vertices) = 4
              /\ Len(Last(after).indices) = 6

\* set_color and the transform calls leave every command as it is
StateCallsKeepCommands ==
    (\E op \in {"set_color", "translate", "origin", "scale"} : CallStep(op)) =>
        render_list'.commands = render_list.commands

\* C33: every rectangle or sprite draw call leaves all commands of the
\* render list except the last one unchanged (vertices, indices and bound
\* texture) and either appends one quad to the last command or pushes one
\* new command; set_color and the transform calls change no command.
OnlyLastExtended == [][DrawTouchesLastOnly /\ StateCallsKeepCommands]_vars

\* C33 witness: a rectangle batch of two quads behind a sprite batch, a
\* color set between the two rectangle calls
OnlyLastExtendedWitness ==
    /\ Len(render_list.commands) = 2
    /\ render_list.commands[1].kind = "SpriteBatch"
    /\ render_list.commands[2].kind = "RectangleBatch"
    /\ Len(render_list.commands[2].vertices) = 8
    /\ Len(trace) = 4
    /\ trace[3].op = "set_color"

----------------------------------------------------------------------------
(* Properties of the recorder: maximal batches *)

\* C34: after any sequence of public drawing calls the render list holds
\* no two adjacent RectangleBatch commands, no two adjacent SpriteBatch
\* commands bound to the same texture, and no empty batch: every batch
\* holds at least one quad.
BatchesMaximal ==
    LET commands == render_list.commands
    IN /\ \A i \in 1..(Len(commands) - 1) :
             /\ ~(commands[i].kind = "RectangleBatch"
                    /\ commands[i + 1].kind = "RectangleBatch")
             /\ ~(/\ commands[i].kind = "SpriteBatch"
                  /\ commands[i + 1].kind = "SpriteBatch"
                  /\ commands[i].texture.id = commands[i + 1].texture.id)
       /\ \A i \in 1..Len(commands) :
             /\ Len(commands[i].vertices) >= 4
             /\ Len(commands[i].indices) >= 6
             /\ Len(commands[i].vertices) % 4 = 0
             /\ Len(commands[i].indices) * 4 = Len(commands[i].vertices) * 6

\* C34 witness: three calls left two sprite batches side by side, bound to
\* different textures, and a rectangle batch behind them
BatchesMaximalWitness ==
    /\ Len(render_list.commands) = 3
    /\ render_list.commands[1].kind = "SpriteBatch"
    /\ render_list.commands[2].kind = "SpriteBatch"
    /\ render_list.commands[3].kind = "RectangleBatch"

----------------------------------------------------------------------------
(* Properties of the recorder: the quad of a rectangle *)

\* the last n elements of seq
Tail_n(seq, n) == SubSeq(seq, Len(seq) - n + 1, Len(seq))

\* the rectangle call of this step appended its four corners under the
\* current transform, in the current color, and six indices counted from
\* the vertices its batch held before
RectangleQuadStep ==
    CallStep("rectangle") =>
        LET call == Last(trace')
            t == draw_state.transform
            c == <<draw_state.color.r, draw_state.color.g,
                   draw_state.color.b, draw_state.color.a>>
            batch == Last(render_list'.commands)
            n == Len(batch.vertices) - 4
        IN /\ batch.kind = "RectangleBatch"
           /\ n = (IF render_list.commands # <<>>
                      /\ Last(render_list.commands).kind = "RectangleBatch"
                   THEN Len(Last(render_list.commands).vertices) ELSE 0)
           /\ Tail_n(batch.vertices, 4) =
                <<[position |-> apply(t, call.x, call.y), color |-> c],
                  [position |-> apply(t, call.x + call.width, call.y), color |-> c],
                  [position |-> apply(t, call.x, call.y + call.height), color |-> c],
                  [position |-> apply(t, call.x + call.width, call.y + call.height),
                   color |-> c]>>
           /\ Tail_n(batch.indices, 6) = <<n, n + 2, n + 1, n + 3, n + 1, n + 2>>

\* a set_color call leaves the recorded vertices as they are
SetColorKeepsQuads ==
    CallStep("set_color") => render_list'.commands = render_list.commands

\* every index of a batch names a vertex of the batch
IndicesBelowVertexCount ==
    \A i \in 1..Len(render_list.commands) :
        \A k \in 1..Len(render_list.commands[i].indices) :
            /\ render_list.commands[i].indices[k] >= 0
            /\ render_list.commands[i].indices[k] < Len(render_list.commands[i].vertices)

\* rectangle(0, 0, 10, 10) called first, the state being the default one
DefaultRectangleQuad ==
    (/\ Len(trace) >= 1 /\ trace[1].op = "rectangle"
     /\ <<trace[1].x, trace[1].y, trace[1].width, trace[1].height>> = <<0, 0, 10, 10>>) =>
        /\ render_list.commands # <<>>
        /\ render_list.commands[1].kind = "RectangleBatch"
        /\ SubSeq(render_list.commands[1].vertices, 1, 4) =
              <<[position |-> <<0, 0>>, color |-> <<0, 0, 0, 1>>],
                [position |-> <<10, 0>>, color |-> <<0, 0, 0, 1>>],
                [position |-> <<0, 10>>, color |-> <<0, 0, 0, 1>>],
                [position |-> <<10, 10>>, color |-> <<0, 0, 0, 1>>]>>
        /\ SubSeq(render_list.commands[1].indices, 1, 6) = <<0, 2, 1, 3, 1, 2>>

\* C35: rectangle(x, y, w, h) appends four vertices at the current
\* transform applied to (x, y), (x+w, y), (x, y+h), (x+w, y+h), in that
\* order, all in the color current at the call (a later set_color does not
\* alter them), and the indices n, n+2, n+1, n+3, n+1, n+2, n the batch's
\* vertex count before the call; so every index of a batch is smaller than
\* its vertex count. With default state rectangle(0, 0, 10, 10) gives
\* (0,0), (10,0), (0,10), (10,10), color (0,0,0,1), indices 0,2,1,3,1,2.
RectangleQuadLayout ==
    /\ [][RectangleQuadStep /\ SetColorKeepsQuads]_vars
    /\ [](IndicesBelowVertexCount /\ DefaultRectangleQuad)

\* C35 witness: rectangle(0, 0, 10, 10) in the default state, then a
\* color, a translation and a second rectangle in the same batch
RectangleQuadWitness ==
    /\ Len(trace) = 4
    /\ trace[1].op = "rectangle" /\ trace[1].width = 10
    /\ trace[2].op = "set_color"
    /\ trace[3].op = "translate"
    /\ trace[4].op = "rectangle"
    /\ Len(render_list.commands) = 1
    /\ Len(render_list.commands[1].vertices) = 8
    /\ render_list.commands[1].vertices[5].color # render_list.commands[1].vertices[1].color
    /\ render_list.commands[1].indices[7] = 4

----------------------------------------------------------------------------
(* Properties of the renderer: the ring buffers *)

\* this step is the frame reset
ResetStep == phase = "poll" /\ phase' = "draw"

\* this step is the end of a frame that rendered
RenderStep == phase = "draw" /\ phase' = "idle" /\ ~skipped'

\* the ranges written by the batches of the frame follow one another from
\* offset 0, each as long as its batch, and the offsets stand at their end
WritesContiguous ==
    /\ \A i \in 1..Len(drawcalls) :
          /\ drawcalls[i].vertex_start =
                (IF i = 1 THEN 0 ELSE drawcalls[i - 1].vertex_end)
          /\ drawcalls[i].index_start =
                (IF i = 1 THEN 0 ELSE drawcalls[i - 1].index_end)
          /\ drawcalls[i].vertex_end > drawcalls[i].vertex_start
          /\ drawcalls[i].index_end =
                drawcalls[i].index_start + drawcalls[i].index_count * IndexBytes
          /\ drawcalls[i].index_end > drawcalls[i].index_start
    /\ \A i, j \in 1..Len(drawcalls) :
          i < j => /\ drawcalls[i].vertex_end <= drawcalls[j].vertex_start
                   /\ drawcalls[i].index_end <= drawcalls[j].index_start
    /\ vertex_offset = (IF drawcalls = <<>> THEN 0 ELSE Last(drawcalls).vertex_end)
    /\ index_offset = (IF drawcalls = <<>> THEN 0 ELSE Last(drawcalls).index_end)

\* the offsets fall only in the frame reset, which zeroes them
OffsetsAdvance ==
    IF ResetStep
    THEN vertex_offset' = 0 /\ index_offset' = 0
    ELSE vertex_offset' >= vertex_offset /\ index_offset' >= index_offset

\* the buffers are written only by a render, which starts from the offsets
\* the frame reset left; the draw phase it ends is entered by a reset only
RenderOncePerReset ==
    /\ (drawcalls' # drawcalls /\ ~ResetStep) =>
          (RenderStep /\ drawcalls = <<>> /\ vertex_offset = 0 /\ index_offset = 0)
    /\ (vertex_offset' # vertex_offset \/ index_offset' # index_offset) =>
          (RenderStep \/ ResetStep)
    /\ (phase' = "draw" /\ phase # "draw") => ResetStep
    /\ RenderStep => Len(drawcalls') = Len(render_list.commands)

\* C36: during render the byte ranges written to the vertex buffer by
\* successive batches are pairwise disjoint and contiguous from offset 0
\* (batch i at the sum of the sizes of the batches before it), likewise
\* for the index buffer; the offsets only increase between two frame
\* resets, and render is executed at most once between two frame resets.
RingWritesDisjoint ==
    /\ []WritesContiguous
    /\ [][OffsetsAdvance /\ RenderOncePerReset]_vars

\* C36 witness: a frame of two sprite batches and a rectangle batch was
\* rendered: three writes, 2 * 64 + 96 vertex bytes and 3 * 24 index bytes
RingWritesWitness ==
    /\ phase = "idle"
    /\ Len(drawcalls) = 3
    /\ drawcalls[1].pipeline = "sprite" /\ drawcalls[2].pipeline = "sprite"
    /\ drawcalls[3].pipeline = "rectangle"
    /\ drawcalls[3].vertex_start = 128
    /\ vertex_offset = 224
    /\ index_offset = 72

\* C37: for every render list that the public API can build in one frame,
\* each write (offset + length) into the vertex buffer and into the index
\* buffer stays within the buffer's capacity, 0x1000000 bytes each.
RingWritesFit ==
    \A i \in 1..Len(drawcalls) :
        /\ drawcalls[i].vertex_end <= BufferSize
        /\ drawcalls[i].index_end <= BufferSize

----------------------------------------------------------------------------
(* Properties of the keyboard state *)

RECURSIVE LastKeyEvent(_, _, _)
\* the newest key event for the scancode among the first n calls, or 0
LastKeyEvent(tr, n, scancode) ==
    IF n = 0 THEN 0
    ELSE IF tr[n].op = "key" /\ tr[n].scancode = scancode THEN n
    ELSE LastKeyEvent(tr, n - 1, scancode)

\* C38: for every Scancode value, Unidentified included (every unmapped
\* physical key is translated to it), handling a key press or release
\* stores the state without failing, and keyboard::is_pressed(scancode)
\* then returns true after a press and false after a release of it.
KeySlotForEveryScancode ==
    \A i \in 1..Len(trace) :
        /\ trace[i].op \in {"key", "is_pressed"} => ~trace[i].panicked
        /\ (trace[i].op = "is_pressed"
                /\ LastKeyEvent(trace, i - 1, trace[i].scancode) # 0) =>
              trace[i].value =
                  trace[LastKeyEvent(trace, i - 1, trace[i].scancode)].pressed

----------------------------------------------------------------------------
(* Properties of the fixed-step clock *)

\* this call of Executor::update ran the update callbacks at most once,
\* and exactly if the accumulated time exceeded the tick duration; it left
\* the accumulator reduced by one tick, or at zero if more than one tick
\* would remain
UpdateStepOk ==
    CallStep("tick") =>
        LET d == app.tick_duration
            acc == app.collected + Last(trace').elapsed
        IN /\ Last(trace').updates \in {0, 1}
           /\ Last(trace').updates = 1 <=> acc > d
           /\ Len(app'.calls) - Len(app.calls) = Last(trace').updates
           /\ app'.collected =
                 (IF acc <= d THEN acc ELSE IF acc - d > d THEN 0 ELSE acc - d)
           /\ app'.collected <= d

\* C39: each call of Executor::update runs the update callbacks at most
\* once, and exactly when the accumulated time (previous remainder plus
\* elapsed time) strictly exceeds the tick duration; after every call the
\* accumulator is at most one tick duration (reduced by one tick, or set to
\* zero if it would still exceed one tick): a long stall never causes more
\* than one update per call.
FixedStepNoCatchUp == [][UpdateStepOk]_vars /\ [](app.collected <= app.tick_duration)

\* C39 witness: with a tick of 3, a call after 2 runs nothing, a call after
\* 2 more runs one update and keeps 1, and a stall of 7 runs one update
\* and leaves nothing to catch up
FixedStepWitness ==
    /\ app.tick_duration = 3
    /\ Len(trace) = 3
    /\ trace[1].elapsed = 2 /\ ~trace[1].fired
    /\ trace[2].elapsed = 2 /\ trace[2].fired
    /\ trace[3].elapsed = 7 /\ trace[3].fired
    /\ app.collected = 0
    /\ app.calls = <<"update", "update">>

----------------------------------------------------------------------------
(* Properties of the device request *)

\* the future is ready while create_device's loop is still running
ReadyInLoop == app.device.future # "pending" /\ app.device.pc \in {"poll", "park"}

\* a thread about to park after a Pending poll holds the token, or is
\* about to be given it, whenever the future has become ready meanwhile
NoLostWakeup ==
    (app.device.pc = "park" /\ app.device.future # "pending")
        => (app.device.token \/ app.device.waking)

\* a failed request ends startup with exit requested, the drawing context
\* not initialised and load not called; a device ends it with both done
StartupFollowsRequest ==
    app.device.pc = "returned" =>
        IF app.device.future = "ok"
        THEN app.internals /\ app.context /\ Count(app.calls, "load") = 1
        ELSE /\ app.exiting
             /\ ~app.internals /\ ~app.context
             /\ Count(app.calls, "load") = 0

\* C40: in create_device's poll/park loop, if the device-request future
\* becomes ready and wakes the waker at any point, also between a poll
\* that returned Pending and the following park, the loop polls again and
\* terminates with the result; a failed request yields None, which makes
\* Renderer::new return None and startup exit without initialising the
\* drawing context or calling load.
DeviceNoLostWakeup ==
    /\ [](NoLostWakeup /\ StartupFollowsRequest)
    /\ (ReadyInLoop ~> app.device.pc = "returned")

\* C40 witness: the request failed after a poll had returned Pending and
\* before the park; the park returned on the token, the second poll found
\* the result, and startup ended in exit without context or load
DeviceNoLostWakeupWitness ==
    /\ app.device.pc = "returned"
    /\ app.device.future = "err"
    /\ app.exiting /\ ~app.context
    /\ Len(trace) = 3
    /\ trace[1].op = "poll" /\ ~trace[1].ready
    /\ trace[2].op = "park" /\ ~trace[2].spurious
    /\ trace[3].op = "poll" /\ trace[3].ready

====
